---- MODULE Spec2Model ----
(***************************************************************************)
(* A model of the snippet repair pipeline (agents/code_fixer_agent.py),    *)
(* the sandboxed executor (agents/data_agent.py) and the faithfulness      *)
(* engine (reports/faithfulness.py).                                       *)
(*                                                                         *)
(* Text is a sequence of tokens.  Every token stands for a fixed piece of  *)
(* Python text, and every text operation below (strip, splitlines, the     *)
(* regular expressions, ast.parse) is defined on token sequences by what   *)
(* the operation does on the characters the tokens stand for.              *)
(***************************************************************************)
EXTENDS Integers, Sequences, FiniteSets, TLC

\* ------------------------------------------------------------------ tokens
DF         == "df.a"        \* dataset accessor, starts with df.
X          == "x"           \* an identifier
OPEN       == "open"        \* the identifier open
CALL       == "()"          \* empty parentheses: a call, or the empty tuple
EQ         == "="
RESULT     == "result"      \* the result binding
NL         == "NL"          \* a line feed
SP         == "SP"          \* a space
FENCE      == "FENCE"       \* three backticks
CODE_OPEN  == "<code>"
CODE_CLOSE == "</code>"
LABEL      == "Answer:"
NBSP       == "NBSP"        \* a non-breaking space, U+00A0
JOPEN      == "JOPEN"       \* {"code": " : opens a JSON envelope and its code string
JCLOSE     == "JCLOSE"      \* "} : closes the string and the envelope
ESC_N      == "ESC_N"       \* backslash n (an escaped line feed)
ESC_U      == "ESC_U"       \* backslash U (a truncated \UXXXXXXXX escape)
MARK       == "MARK"        \* the text # [REMOVED_DANGEROUS] and a space
LONG       == "LONG"        \* an identifier of 400 characters
LEN        == "len"         \* the identifier len, one of the sandbox's built-ins
JNUM       == "JNUM"        \* {"code": 5} : an envelope whose code is a number
IMPORT_OS  == "IMPORT_OS"   \* len.__self__.__import__("os") : the module os, reached
                            \* through the module that owns the built-in len
IMPORT     == "import"      \* the keyword import
OS         == "os"          \* the identifier os
DOTSYS     == ".system"     \* the attribute reference .system
PD         == "pd.a"        \* an attribute of the module pd of safe_globals

CoreTok     == {DF, X, OPEN, CALL, EQ, RESULT, NL, SP}
ArtifactTok == {FENCE, CODE_OPEN, CODE_CLOSE, LABEL, NBSP, JOPEN, JCLOSE, ESC_N, ESC_U}
PatternTok  == {IMPORT, OS, DOTSYS}
Tok         ==
    CoreTok \cup ArtifactTok \cup PatternTok \cup {MARK, LONG, LEN, JNUM, IMPORT_OS, PD}

\* ------------------------------------------------------------ text helpers
\* Unicode whitespace, as str.strip() and the regex class \s see it.
IsSpace(t) == t \in {SP, NL, NBSP}

\* tokens made of word characters only (the regex class \w)
IsWord(t) == t \in {X, OPEN, RESULT, LONG, LEN, IMPORT, OS}

\* tokens whose last character is a word character (for the regex \b)
EndsWord(t) ==
    t \in {X, OPEN, RESULT, LONG, LEN, DF, ESC_N, ESC_U, IMPORT, OS, DOTSYS, PD}

\* tokens whose first character is a word character (for the regex \b)
StartsWord(t) ==
    t \in {X, OPEN, RESULT, LONG, LEN, DF, LABEL, IMPORT_OS, IMPORT, OS, PD}

\* tokens that are, or extend, a name or attribute reference
IsName(t) == t \in {X, OPEN, RESULT, LONG, LEN, DF, OS, PD}

Drop(s, n) == SubSeq(s, n + 1, Len(s))
Take(s, n) == SubSeq(s, 1, n)

RECURSIVE LStrip(_)
LStrip(s) == IF s # <<>> /\ IsSpace(s[1]) THEN LStrip(Tail(s)) ELSE s

RECURSIVE RStrip(_)
RStrip(s) == IF s # <<>> /\ IsSpace(s[Len(s)]) THEN RStrip(Take(s, Len(s) - 1)) ELSE s

\* str.strip()
Strip(s) == RStrip(LStrip(s))

\* index of the first token of s at or after position i that is in set S; 0 if none
RECURSIVE Find(_, _, _)
Find(s, S, i) ==
    IF i > Len(s) THEN 0
    ELSE IF s[i] \in S THEN i
    ELSE Find(s, S, i + 1)

Contains(s, t) == \E i \in 1..Len(s) : s[i] = t

\* s with every token t removed
RECURSIVE Remove(_, _)
Remove(s, t) ==
    IF s = <<>> THEN <<>>
    ELSE IF s[1] = t THEN Remove(Tail(s), t)
    ELSE <<s[1]>> \o Remove(Tail(s), t)

\* str.splitlines(): the lines of s; a final newline opens no further line
RECURSIVE SplitLines(_)
SplitLines(s) ==
    IF s = <<>> THEN <<>>
    ELSE LET i == Find(s, {NL}, 1) IN
         IF i = 0 THEN <<s>>
         ELSE <<Take(s, i - 1)>> \o SplitLines(Drop(s, i))

\* "\n".join(lines)
RECURSIVE JoinLines(_)
JoinLines(lines) ==
    IF lines = <<>> THEN <<>>
    ELSE IF Len(lines) = 1 THEN lines[1]
    ELSE lines[1] \o <<NL>> \o JoinLines(Tail(lines))

\* [l for l in lines if l.strip()]
RECURSIVE NonBlank(_)
NonBlank(lines) ==
    IF lines = <<>> THEN <<>>
    ELSE IF Strip(lines[1]) = <<>> THEN NonBlank(Tail(lines))
    ELSE <<lines[1]>> \o NonBlank(Tail(lines))

\* the number of characters a token stands for
Width(t) ==
    CASE t = DF -> 4
      [] t = X -> 1
      [] t = OPEN -> 4
      [] t = CALL -> 2
      [] t = EQ -> 1
      [] t = RESULT -> 6
      [] t = FENCE -> 3
      [] t = CODE_OPEN -> 6
      [] t = CODE_CLOSE -> 7
      [] t = LABEL -> 7
      [] t = JOPEN -> 10
      [] t = JCLOSE -> 2
      [] t = ESC_N -> 2
      [] t = ESC_U -> 2
      [] t = MARK -> 22
      [] t = LONG -> 400
      [] t = LEN -> 3
      [] t = JNUM -> 11
      [] t = IMPORT_OS -> 29
      [] t = IMPORT -> 6
      [] t = OS -> 2
      [] t = PD -> 4
      [] t = DOTSYS -> 7
      [] OTHER -> 1

\* len(s) in characters
RECURSIVE CharLen(_)
CharLen(s) == IF s = <<>> THEN 0 ELSE Width(s[1]) + CharLen(Tail(s))

\* "=" in s
HasEq(s) == Contains(s, EQ)

\* "result" in s
HasResult(s) == Contains(s, RESULT)

\* ------------------------------------------------ agents/code_fixer_agent.py
\* SMART_REPL, of which the text here can hold the non-breaking space
SMART_REPL(t) == IF t = NBSP THEN SP ELSE t

\* _replace_smart
_replace_smart(s) == [i \in 1..Len(s) |-> SMART_REPL(s[i])]

\* the interior of the first match of  open \s* ( [\s\S]*? ) close  in text,
\* as [found, group]
Between(text, open, close) ==
    LET i == Find(text, {open}, 1)
        j == IF i = 0 THEN 0 ELSE Find(text, {close}, i + 1)
    IN  IF j = 0 THEN [found |-> FALSE, group |-> <<>>]
        ELSE [found |-> TRUE, group |-> SubSeq(text, i + 1, j - 1)]

\* extract_code_block: a fenced block, else a <code> block, else the text
extract_code_block(text) ==
    IF text = <<>> THEN <<>>
    ELSE LET fenced == Between(text, FENCE, FENCE)
             tagged == Between(text, CODE_OPEN, CODE_CLOSE)
         IN  IF fenced.found THEN Strip(fenced.group)
             ELSE IF tagged.found THEN Strip(tagged.group)
             ELSE Strip(text)

\* re.sub(r'^(Answer:|Result:|Output:)\s*', '', code)
StripLabel(code) ==
    IF code # <<>> /\ code[1] = LABEL THEN LStrip(Tail(code)) ELSE code

\* inner.encode('utf-8').decode('unicode_escape'): [raised, text]
RECURSIVE UnicodeEscape(_)
UnicodeEscape(s) ==
    IF s = <<>> THEN [raised |-> FALSE, text |-> <<>>]
    ELSE IF s[1] = ESC_U THEN [raised |-> TRUE, text |-> <<>>]
    ELSE LET rest == UnicodeEscape(Tail(s))
             head == IF s[1] = ESC_N THEN NL ELSE s[1]
         IN  [raised |-> rest.raised, text |-> <<head>> \o rest.text]

\* step 4 of fix_invalid_code: the value of a "code": "..." field, unescaped
JsonCode(code) ==
    LET m_json_code == Between(code, JOPEN, JCLOSE)
        inner == UnicodeEscape(m_json_code.group)
    IN  IF ~m_json_code.found THEN [raised |-> FALSE, text |-> code]
        ELSE IF inner.raised THEN [raised |-> TRUE, text |-> code]
        ELSE [raised |-> FALSE, text |-> Strip(inner.text)]

\* the number of leading word tokens of l
RECURSIVE WordRun(_)
WordRun(l) == IF l # <<>> /\ IsWord(l[1]) THEN 1 + WordRun(Tail(l)) ELSE 0

MaxExprLen == 400

\* _looks_like_single_expr
_looks_like_single_expr(code) ==
    LET lines == NonBlank(SplitLines(Strip(code)))
        l == Strip(lines[1])
        n == WordRun(l)
    IN  IF Len(lines) # 1 THEN FALSE
        ELSE IF l[1] = RESULT THEN FALSE
        ELSE IF l[1] = DF \/ l[1] = CALL \/ (n > 0 /\ n < Len(l) /\ l[n + 1] = CALL)
             THEN TRUE
        ELSE CharLen(l) < MaxExprLen /\ ~HasEq(l)

\* a variant of Enforce that never wraps
Enforce_Never(code) == code

\* a variant of Enforce that does not look for the text result first
Enforce_IgnoresResult(code) ==
    IF _looks_like_single_expr(code)
    THEN <<RESULT, SP, EQ, SP>> \o Strip(code)
    ELSE code

\* step 5 of fix_invalid_code: the Output-Contract Enforcer
Enforce(code) ==
    IF _looks_like_single_expr(code) /\ ~HasResult(code)
    THEN <<RESULT, SP, EQ, SP>> \o Strip(code)
    ELSE code

\* DANGEROUS_PATTERNS, in the order of the list: of its seven patterns the text
\* here can match  \bimport\s+os\b ,  \bopen\s*\(  and  \bos\.system\b
DANGEROUS_PATTERNS == <<"import os", "open(", "os.system">>

\* \b in front of position i of s
WordStart(s, i) == i = 1 \/ ~EndsWord(s[i - 1])

\* \b behind position j of s
WordEnd(s, j) == j = Len(s) \/ ~StartsWord(s[j + 1])

\* the end of the match of pattern pat that starts at position i of s, or 0
DangerEnd(pat, s, i) ==
    LET j == Find(s, {t \in Tok : ~IsSpace(t)}, i + 1) IN
    CASE pat = "import os" ->
           IF s[i] = IMPORT /\ WordStart(s, i) /\ j > i + 1 /\ s[j] = OS /\ WordEnd(s, j)
           THEN j ELSE 0
      [] pat = "open(" ->
           IF s[i] = OPEN /\ WordStart(s, i) /\ j # 0 /\ s[j] = CALL THEN j ELSE 0
      [] pat = "os.system" ->
           IF s[i] = OS /\ WordStart(s, i) /\ i < Len(s) /\ s[i + 1] = DOTSYS
              /\ WordEnd(s, i + 1)
           THEN i + 1 ELSE 0
      [] OTHER -> 0

\* a variant of SanitizeFrom that puts the marker in the place of the match
RECURSIVE SanitizeFrom_Deletes(_, _, _)
SanitizeFrom_Deletes(pat, s, i) ==
    IF i > Len(s) THEN <<>>
    ELSE LET e == DangerEnd(pat, s, i) IN
         IF e = 0 THEN <<s[i]>> \o SanitizeFrom_Deletes(pat, s, i + 1)
         ELSE <<MARK>> \o SanitizeFrom_Deletes(pat, s, e + 1)

\* re.sub(pat, marker + match, s) from position i on: a marker in front of
\* every match of pat, the matches taken from left to right without overlap
RECURSIVE SanitizeFrom(_, _, _)
SanitizeFrom(pat, s, i) ==
    IF i > Len(s) THEN <<>>
    ELSE LET e == DangerEnd(pat, s, i) IN
         IF e = 0 THEN <<s[i]>> \o SanitizeFrom(pat, s, i + 1)
         ELSE <<MARK>> \o SubSeq(s, i, e) \o SanitizeFrom(pat, s, e + 1)

\* the loop of _sanitize_dangerous over the first n patterns
RECURSIVE SanitizeUpTo(_, _)
SanitizeUpTo(code, n) ==
    IF n = 0 THEN code
    ELSE SanitizeFrom(DANGEROUS_PATTERNS[n], SanitizeUpTo(code, n - 1), 1)

\* _sanitize_dangerous
_sanitize_dangerous(code) == SanitizeUpTo(code, Len(DANGEROUS_PATTERNS))

\* ------------------------------------------------------------- ast.parse
\* The parser, one line at a time.  A parser state is [k, simple, ann, ctx]:
\*   k       where the line stands: "start", "indent" (only spaces so far),
\*           "expect" (an operand must follow), "name0" (in the name that opens
\*           the statement), "name" (in a later name), "prim" (after an
\*           operand), "primsp" (after an operand and a space), "eq" (after
\*           one =, which a second = makes the comparison ==), "gt" (after
\*           the comparison <code>, which = makes <code>=), "str" (inside the
\*           envelope's string), "comment", "kw0" (after the word import that
\*           opens the statement), "kw" (after the word import where an
\*           operand must follow), "imp" (after the keyword import and a
\*           space), "impkw" (after the word import where the module name
\*           must start), "module" (in the module name), "modsp" (after the
\*           module name and a space), "err"
\*   simple  the expression since the last = is a name, an attribute reference
\*           or a lone (), which is what an assignment target has to be
\*   ann     0, or 1 after an annotation (name:), or 2 after its one =
\*   ctx     "first" in the expression that opens the statement, "rhs" after
\*           an =, "cmp" after a comparison
PErr == [k |-> "err", simple |-> FALSE, ann |-> 0, ctx |-> "cmp"]

PStart == [k |-> "start", simple |-> TRUE, ann |-> 0, ctx |-> "first"]

\* after the operator = in state q
AfterEq(q) ==
    IF q.ann = 0
    THEN (IF q.simple /\ q.ctx # "cmp" THEN [q EXCEPT !.k = "expect", !.ctx = "rhs"]
          ELSE PErr)
    ELSE IF q.ann = 1 THEN [k |-> "expect", simple |-> TRUE, ann |-> 2, ctx |-> "rhs"]
    ELSE PErr

\* the attribute reference .system behind an operand
Attribute(q) ==
    [q EXCEPT !.k = IF q.ctx = "first" /\ q.ann = 0 THEN "name0" ELSE "name",
              !.simple = TRUE]

\* what may follow an operand: a call, an attribute reference, =, the
\* comparison <code>, a comment
AfterOperand(q, t) ==
    CASE t = CALL -> [q EXCEPT !.k = "prim", !.simple = FALSE]
      [] t = DOTSYS -> Attribute(q)
      [] t = SP -> [q EXCEPT !.k = "primsp"]
      [] t = EQ -> [q EXCEPT !.k = "eq"]
      [] t = CODE_OPEN -> [q EXCEPT !.k = "gt", !.simple = FALSE, !.ctx = "cmp"]
      [] t = MARK -> [q EXCEPT !.k = "comment"]
      [] OTHER -> PErr

\* where an operand must follow
Operand(q, t) ==
    CASE IsName(t) -> [q EXCEPT !.k = "name"]
      [] t = IMPORT -> [q EXCEPT !.k = "kw"]
      [] t = CALL -> [q EXCEPT !.k = "prim"]
      [] t = JOPEN -> [q EXCEPT !.k = "str"]
      [] t \in {JNUM, IMPORT_OS} -> [q EXCEPT !.k = "prim", !.simple = FALSE]
      [] t = SP -> [q EXCEPT !.k = "expect"]
      [] OTHER -> PErr

PStep(q, t) ==
    CASE q.k = "start" ->
           (CASE IsName(t) -> [q EXCEPT !.k = "name0"]
              [] t = IMPORT -> [q EXCEPT !.k = "kw0"]
              [] t = CALL -> [q EXCEPT !.k = "prim"]
              [] t = JOPEN -> [q EXCEPT !.k = "str"]
              [] t \in {JNUM, IMPORT_OS} -> [q EXCEPT !.k = "prim", !.simple = FALSE]
              [] t = LABEL -> [q EXCEPT !.k = "expect", !.ann = 1]
              [] t = SP -> [q EXCEPT !.k = "indent"]
              [] t = MARK -> [q EXCEPT !.k = "comment"]
              [] OTHER -> PErr)
      [] q.k = "indent" ->
           (CASE t = SP -> q
              [] t = MARK -> [q EXCEPT !.k = "comment"]
              [] OTHER -> PErr)
      [] q.k = "expect" -> Operand(q, t)
      [] q.k = "eq" ->
           IF t = EQ THEN [q EXCEPT !.k = "expect", !.simple = FALSE, !.ctx = "cmp"]
           ELSE IF AfterEq(q) = PErr THEN PErr
           ELSE Operand(AfterEq(q), t)
      [] q.k = "gt" ->
           IF t = EQ THEN [q EXCEPT !.k = "expect"] ELSE Operand(q, t)
      [] q.k = "name0" ->
           (CASE IsName(t) \/ t = IMPORT -> q
              [] t = LABEL -> [q EXCEPT !.k = "expect", !.ann = 1]
              [] t = IMPORT_OS -> [q EXCEPT !.k = "prim", !.simple = FALSE]
              [] OTHER -> AfterOperand(q, t))
      [] q.k = "name" ->
           (CASE IsName(t) \/ t = IMPORT -> q
              [] t = IMPORT_OS -> [q EXCEPT !.k = "prim", !.simple = FALSE]
              [] OTHER -> AfterOperand(q, t))
      [] q.k = "kw0" ->
           (CASE IsName(t) \/ t = IMPORT -> [q EXCEPT !.k = "name0"]
              [] t = LABEL -> [q EXCEPT !.k = "expect", !.ann = 1]
              [] t = IMPORT_OS -> [q EXCEPT !.k = "prim", !.simple = FALSE]
              [] t = SP -> [q EXCEPT !.k = "imp"]
              [] OTHER -> PErr)
      [] q.k = "kw" ->
           (CASE IsName(t) \/ t = IMPORT -> [q EXCEPT !.k = "name"]
              [] t = IMPORT_OS -> [q EXCEPT !.k = "prim", !.simple = FALSE]
              [] OTHER -> PErr)
      [] q.k = "imp" ->
           (CASE t = SP -> q
              [] IsName(t) -> [q EXCEPT !.k = "module"]
              [] t = IMPORT -> [q EXCEPT !.k = "impkw"]
              [] OTHER -> PErr)
      [] q.k = "impkw" ->
           (CASE IsName(t) \/ t = IMPORT -> [q EXCEPT !.k = "module"]
              [] OTHER -> PErr)
      [] q.k = "module" ->
           (CASE IsName(t) \/ t \in {IMPORT, DOTSYS} -> q
              [] t = SP -> [q EXCEPT !.k = "modsp"]
              [] t = MARK -> [q EXCEPT !.k = "comment"]
              [] OTHER -> PErr)
      [] q.k = "modsp" ->
           (CASE t = SP -> q
              [] t = DOTSYS -> [q EXCEPT !.k = "module"]
              [] t = MARK -> [q EXCEPT !.k = "comment"]
              [] OTHER -> PErr)
      [] q.k = "prim" -> AfterOperand(q, t)
      [] q.k = "primsp" -> AfterOperand(q, t)
      [] q.k = "str" ->
           (CASE t = JCLOSE -> [q EXCEPT !.k = "prim", !.simple = FALSE]
              [] t \in {ESC_U, JOPEN, JNUM, IMPORT_OS} -> PErr
              [] OTHER -> q)
      [] q.k = "comment" -> q
      [] OTHER -> PErr

RECURSIVE PRun(_, _)
PRun(q, l) == IF l = <<>> THEN q ELSE PRun(PStep(q, l[1]), Tail(l))

\* one line is a statement, a comment or blank
ParsesLine(l) ==
    PRun(PStart, l).k
        \in {"start", "indent", "name0", "name", "prim", "primsp", "comment",
             "module", "modsp"}

\* ast.parse(code) raises no SyntaxError
Parses(code) ==
    LET lines == SplitLines(code) IN \A i \in 1..Len(lines) : ParsesLine(lines[i])

\* is_valid_python (data_agent.py)
is_valid_python(code) == Parses(code)

\* fallback (a): drop the backticks and a leading tag
FallbackA(code) ==
    LET noticks == Remove(code, FENCE)
        lead == LStrip(noticks)
    IN  IF lead # <<>> /\ lead[1] \in {CODE_OPEN, CODE_CLOSE}
        THEN LStrip(Tail(lead))
        ELSE noticks

\* fallback (b): the last line wrapped into the result binding, as
\* [applies, attempt]
FallbackB(code) ==
    LET lines == SplitLines(code)
        last == IF lines = <<>> THEN <<>> ELSE Strip(lines[Len(lines)])
    IN  IF last # <<>> /\ ~HasEq(last) /\ CharLen(last) < MaxExprLen
        THEN [applies |-> TRUE,
              attempt |-> JoinLines(Take(lines, Len(lines) - 1)
                                    \o << <<RESULT, SP, EQ, SP>> \o last >>)]
        ELSE [applies |-> FALSE, attempt |-> code]

\* steps 1 to 3 of fix_invalid_code
Normalize(raw_text) == StripLabel(_replace_smart(extract_code_block(raw_text)))

\* a variant of Validate whose first fallback returns the snippet it was given
\* instead of the snippet it has just parsed
Validate_ReturnsCode(code) ==
    LET code2 == FallbackA(code)
        b == FallbackB(code)
    IN  IF Parses(code) THEN [raised |-> FALSE, code |-> code, via |-> "parsed",
                             tried |-> <<code>>]
        ELSE IF Parses(code2)
             THEN [raised |-> FALSE, code |-> code, via |-> "fallback_a",
                   tried |-> <<code, code2>>]
        ELSE IF b.applies /\ Parses(b.attempt)
             THEN [raised |-> FALSE, code |-> b.attempt, via |-> "fallback_b",
                   tried |-> <<code, code2, b.attempt>>]
        ELSE [raised |-> FALSE, code |-> code, via |-> "best_effort",
              tried |-> IF b.applies THEN <<code, code2, b.attempt>> ELSE <<code, code2>>]

\* a variant of Validate that tries the second fallback before the first
Validate_SecondFirst(code) ==
    LET code2 == FallbackA(code)
        b == FallbackB(code)
    IN  IF Parses(code) THEN [raised |-> FALSE, code |-> code, via |-> "parsed",
                             tried |-> <<code>>]
        ELSE IF b.applies /\ Parses(b.attempt)
             THEN [raised |-> FALSE, code |-> b.attempt, via |-> "fallback_b",
                   tried |-> <<code, b.attempt>>]
        ELSE IF Parses(code2)
             THEN [raised |-> FALSE, code |-> code2, via |-> "fallback_a",
                   tried |-> IF b.applies THEN <<code, b.attempt, code2>>
                             ELSE <<code, code2>>]
        ELSE [raised |-> FALSE, code |-> code, via |-> "best_effort",
              tried |-> IF b.applies THEN <<code, b.attempt, code2>> ELSE <<code, code2>>]

\* a variant of Validate whose best effort keeps the edit of the first fallback
Validate_KeepsEdit(code) ==
    LET code2 == FallbackA(code)
        b == FallbackB(code)
    IN  IF Parses(code) THEN [raised |-> FALSE, code |-> code, via |-> "parsed",
                             tried |-> <<code>>]
        ELSE IF Parses(code2)
             THEN [raised |-> FALSE, code |-> code2, via |-> "fallback_a",
                   tried |-> <<code, code2>>]
        ELSE IF b.applies /\ Parses(b.attempt)
             THEN [raised |-> FALSE, code |-> b.attempt, via |-> "fallback_b",
                   tried |-> <<code, code2, b.attempt>>]
        ELSE [raised |-> FALSE, code |-> code2, via |-> "best_effort",
              tried |-> IF b.applies THEN <<code, code2, b.attempt>> ELSE <<code, code2>>]

\* steps 7 on: parse, the two fallbacks, the best effort
Validate(code) ==
    LET code2 == FallbackA(code)
        b == FallbackB(code)
    IN  IF Parses(code) THEN [raised |-> FALSE, code |-> code, via |-> "parsed",
                             tried |-> <<code>>]
        ELSE IF Parses(code2)
             THEN [raised |-> FALSE, code |-> code2, via |-> "fallback_a",
                   tried |-> <<code, code2>>]
        ELSE IF b.applies /\ Parses(b.attempt)
             THEN [raised |-> FALSE, code |-> b.attempt, via |-> "fallback_b",
                   tried |-> <<code, code2, b.attempt>>]
        ELSE [raised |-> FALSE, code |-> code, via |-> "best_effort",
              tried |-> IF b.applies THEN <<code, code2, b.attempt>> ELSE <<code, code2>>]

\* fix_invalid_code: [raised, code, via, tried]; via names the return taken,
\* tried is what was given to ast.parse, in order
fix_invalid_code(raw_text) ==
    IF raw_text = <<>>
    THEN [raised |-> FALSE, code |-> <<>>, via |-> "empty", tried |-> <<>>]
    ELSE LET j == JsonCode(Normalize(raw_text)) IN
         IF j.raised
         THEN [raised |-> TRUE, code |-> <<>>, via |-> "raised", tried |-> <<>>]
         ELSE Validate(_sanitize_dangerous(Enforce(j.text)))

\* --------------------------------------------------- agents/data_agent.py
\* json.loads on a string literal's body: the escapes decoded
JsonDecode(body) == [i \in 1..Len(body) |-> IF body[i] = ESC_N THEN NL ELSE body[i]]

\* extract_json_from_text: the span from the first { to the last } of the
\* text, when json.loads accepts it, as [found, code_is_str, code]: an object
\* with a "code" string, or one whose "code" is a number.  A raw line feed, a
\* quote or a backslash U inside the string make json.loads fail.
extract_json_from_text(text) ==
    LET i == Find(text, {JOPEN, JNUM}, 1)
        last == CHOOSE j \in 0..Len(text) :
                    /\ j # 0 => text[j] \in {JCLOSE, JNUM}
                    /\ \A k \in (j + 1)..Len(text) : text[k] \notin {JCLOSE, JNUM}
        span == SubSeq(text, i, last)
        body == SubSeq(text, i + 1, last - 1)
        none == [found |-> FALSE, code_is_str |-> FALSE, code |-> <<>>]
    IN  IF i = 0 \/ last < i THEN none
        ELSE IF span = <<JNUM>> THEN [found |-> TRUE, code_is_str |-> FALSE, code |-> <<>>]
        ELSE IF /\ Len(span) >= 2
                /\ span[1] = JOPEN
                /\ span[Len(span)] = JCLOSE
                /\ \A k \in 1..Len(body) :
                       body[k] \notin {NL, JOPEN, JCLOSE, JNUM, ESC_U, IMPORT_OS}
             THEN [found |-> TRUE, code_is_str |-> TRUE, code |-> JsonDecode(body)]
        ELSE none

\* the keys of safe_globals["__builtins__"]
safe_builtins ==
    {"len", "sum", "min", "max", "sorted", "round", "abs", "range",
     "enumerate", "zip", "list", "dict"}

\* ---- exec(code, safe_globals, local_vars)
\* The values a snippet of these tokens can compute:
\*   <<"tuple">>          the empty tuple ()
\*   <<"dict">> \o body   an envelope literal, body being its string's text
\*   <<"func", name>>     a built-in function
\*   <<"bool", "T"|"F">>  the outcome of a comparison
\*   <<"series">>         the column df.a, or an elementwise comparison with it
\*   <<"module", "os">>   the module os
\* What pandas does with a column rests on the data: env.lib_raises says
\* whether an elementwise comparison, an assignment to the column or the
\* unpacking of the column raises, env.truth ("raises", "true", "false") what
\* the truth value of a column is.
Envs == [lib_raises : BOOLEAN, truth : {"raises", "true", "false"}]

EQEQ == "=="
ANSWER == "Answer"

\* A statement read as items: the spaces and the comment go, = = becomes the
\* comparison ==, <code>= the comparison >=, and an envelope literal is one
\* item, the value it denotes.  Every other item is <<t>> for its token t.
RECURSIVE Lex(_, _, _)
Lex(l, instr, body) ==
    IF l = <<>> THEN <<>>
    ELSE IF instr
         THEN (IF l[1] = JCLOSE
               THEN << <<"dict">> \o body >> \o Lex(Tail(l), FALSE, <<>>)
               ELSE Lex(Tail(l), TRUE, Append(body, l[1])))
    ELSE CASE l[1] = JOPEN -> Lex(Tail(l), TRUE, <<>>)
           [] l[1] = JNUM -> << <<"dict", JNUM>> >> \o Lex(Tail(l), FALSE, <<>>)
           [] l[1] = MARK -> <<>>
           [] l[1] = SP -> Lex(Tail(l), FALSE, <<>>)
           [] l[1] = EQ /\ Len(l) >= 2 /\ l[2] = EQ ->
                << <<EQEQ>> >> \o Lex(Drop(l, 2), FALSE, <<>>)
           [] l[1] = CODE_OPEN /\ Len(l) >= 2 /\ l[2] = EQ ->
                << <<CODE_OPEN>> >> \o Lex(Drop(l, 2), FALSE, <<>>)
           [] OTHER -> << <<l[1]>> >> \o Lex(Tail(l), FALSE, <<>>)

\* the number of leading name tokens of items
RECURSIVE NameRun(_)
NameRun(items) ==
    IF items # <<>> /\ Len(items[1]) = 1 /\ IsName(items[1][1])
    THEN 1 + NameRun(Tail(items)) ELSE 0

\* the tokens of a run of token items
Key(items) == [i \in 1..Len(items) |-> items[i][1]]

\* the items split at each assignment =
RECURSIVE SplitAssign(_)
SplitAssign(items) ==
    LET i == Find(items, {<<EQ>>}, 1) IN
    IF i = 0 THEN <<items>>
    ELSE <<Take(items, i - 1)>> \o SplitAssign(Drop(items, i))

\* A key is the run of name tokens that spells a reference.  Its first name
\* is what precedes the first dot.
FirstName(key) ==
    LET d == Find(key, {DF, PD}, 1) IN
    IF d = 0 THEN key ELSE Take(key, d - 1) \o <<IF key[d] = DF THEN "df" ELSE "pd">>

\* a key that reads an attribute of the dataset, or the column a itself
OnDataset(key) == key[1] = DF /\ ~Contains(Tail(key), DF) /\ ~Contains(Tail(key), PD)

\* a key that reads an attribute of the module pd
OnModule(key) == key[1] = PD /\ ~Contains(Tail(key), DF) /\ ~Contains(Tail(key), PD)

\* The value of a reference, as [raised, name_error, value]:
\*   df.a          the column a of the sandbox's dataset
\*   df.a<more>    an attribute of the dataset, there once the snippet set it
\*   pd.a<more>    an attribute of the module pd, there once a snippet set it
\*   <name>        a local, else a built-in of the sandbox, else NameError
\* name_error is the name a NameError reports.
Lookup(key, locals) ==
    LET ok(v) == [raised |-> FALSE, name_error |-> <<>>, value |-> v]
        attr_error == [raised |-> TRUE, name_error |-> <<>>, value |-> <<>>]
        name_error == [raised |-> TRUE, name_error |-> FirstName(key), value |-> <<>>]
    IN  IF key = <<DF>> THEN ok(<<"series">>)
        ELSE IF key \in DOMAIN locals THEN ok(locals[key])
        ELSE IF key[1] = DF \/ key[1] = PD THEN attr_error
        ELSE IF Contains(key, DF) \/ Contains(key, PD) THEN name_error
        ELSE IF Len(key) = 1 /\ key[1] \in safe_builtins THEN ok(<<"func", key[1]>>)
        ELSE name_error

\* The value of len.__self__.__import__("os") after the names in front of it:
\* len is the built-in unless the snippet rebound it, its __self__ is the
\* module of all built-ins, and __import__ of that module imports.
Import(names, locals) ==
    LET len_ == Lookup(Append(names, LEN), locals) IN
    IF len_.raised THEN len_
    ELSE IF len_.value # <<"func", LEN>>
    THEN [raised |-> TRUE, name_error |-> <<>>, value |-> <<>>]
    ELSE [raised |-> FALSE, name_error |-> <<>>, value |-> <<"module", "os">>]

\* The calls made on an atom.  No value here takes a call without arguments,
\* so a call raises TypeError.  rest is what follows the operand, imported
\* whether the operand imported a module.
\* [raised, name_error, value, rest, imported]
Called(atom, rest, imports) ==
    IF atom.raised
    THEN [raised |-> TRUE, name_error |-> atom.name_error, value |-> <<>>,
          rest |-> <<>>, imported |-> FALSE]
    ELSE IF rest # <<>> /\ rest[1] = <<CALL>>
    THEN [raised |-> TRUE, name_error |-> <<>>, value |-> <<>>, rest |-> <<>>,
          imported |-> imports]
    ELSE [raised |-> FALSE, name_error |-> <<>>, value |-> atom.value, rest |-> rest,
          imported |-> imports]

\* One operand: an atom (a reference, the import, the empty tuple or an
\* envelope literal) and the calls made on it.
EvalOperand(items, locals) ==
    LET n == NameRun(items)
        imports == Len(items) > n /\ items[n + 1] = <<IMPORT_OS>>
    IN  Called(IF imports THEN Import(Key(Take(items, n)), locals)
               ELSE IF n > 0 THEN Lookup(Key(Take(items, n)), locals)
               ELSE [raised |-> FALSE, name_error |-> <<>>,
                     value |-> IF items[1] = <<CALL>> THEN <<"tuple">> ELSE items[1]],
               Drop(items, IF imports THEN n + 1 ELSE IF n > 0 THEN n ELSE 1),
               imports)

\* An expression: operands chained by comparisons, each comparison evaluated
\* only if the one before it was true.  <code> reads the unbound name code.
\* left is the operand before, <<>> at the start, and imported whether an
\* operand before imported a module.  [raised, name_error, value, imported]
RECURSIVE EvalChain(_, _, _, _, _)

\* the comparison of left with the operand op, and the rest of the chain
Compare(op, locals, env, left, imported) ==
    LET elementwise == <<"series">> \in {left, op.value}
        cmp == IF left = <<>> THEN op.value
               ELSE IF elementwise THEN <<"series">>
               ELSE <<"bool", IF left = op.value THEN "T" ELSE "F">>
        truth == IF cmp = <<"series">> THEN env.truth
                 ELSE IF cmp = <<"bool", "F">> THEN "false" ELSE "true"
        imp == imported \/ op.imported
        done(v) == [raised |-> FALSE, name_error |-> <<>>, value |-> v, imported |-> imp]
        fail(name) == [raised |-> TRUE, name_error |-> name, value |-> <<>>,
                       imported |-> imp]
    IN  IF op.raised THEN fail(op.name_error)
        ELSE IF left # <<>> /\ elementwise /\ env.lib_raises THEN fail(<<>>)
        ELSE IF op.rest = <<>> THEN done(cmp)
        ELSE IF left # <<>> /\ truth = "raises" THEN fail(<<>>)
        ELSE IF left # <<>> /\ truth = "false" THEN done(cmp)
        ELSE IF op.rest[1] = <<CODE_OPEN>> THEN fail(<<"code">>)
        ELSE EvalChain(Tail(op.rest), locals, env, op.value, imp)

EvalChain(items, locals, env, left, imported) ==
    Compare(EvalOperand(items, locals), locals, env, left, imported)

\* Binding one target to a value: a name, the column a or an attribute of the
\* dataset (which writes to the sandbox's dataset), an attribute of the module
\* pd (which writes to the module), or the empty tuple (which unpacks an empty
\* value).  [raised, name_error, locals, written]
Bind(target, value, locals, env) ==
    LET fail(name) == [raised |-> TRUE, name_error |-> name, locals |-> locals,
                       written |-> {}]
        ok(l, w) == [raised |-> FALSE, name_error |-> <<>>, locals |-> l, written |-> w]
    IN  IF target = <<CALL>>
        THEN (IF value = <<"tuple">> \/ (value = <<"series">> /\ ~env.lib_raises)
              THEN ok(locals, {})
              ELSE fail(<<>>))
        ELSE IF ~Contains(target, DF) /\ ~Contains(target, PD)
        THEN ok((target :> value) @@ locals, {})
        ELSE IF target = <<DF>>
             THEN (IF env.lib_raises THEN fail(<<>>) ELSE ok(locals, {target}))
        ELSE IF OnDataset(target) \/ OnModule(target)
        THEN ok((target :> value) @@ locals, {target})
        ELSE IF target[1] = DF \/ target[1] = PD THEN fail(<<>>)
        ELSE fail(FirstName(target))

\* the targets of an assignment, bound from left to right
RECURSIVE BindAll(_, _, _, _, _)
BindAll(targets, value, locals, env, written) ==
    IF targets = <<>>
    THEN [raised |-> FALSE, name_error |-> <<>>, locals |-> locals, written |-> written]
    ELSE LET b == Bind(targets[1], value, locals, env) IN
         IF b.raised THEN [b EXCEPT !.written = written]
         ELSE BindAll(Tail(targets), value, b.locals, env, written \cup b.written)

\* how a statement ends, given what its value, its bindings and its
\* annotation came to.  [raised, name_error, locals, written, imported]
Conclude(value, bound, note, locals) ==
    LET end(r, n, ls, w, i) == [raised |-> r, name_error |-> n, locals |-> ls,
                                written |-> w, imported |-> i]
    IN  IF value.raised THEN end(TRUE, value.name_error, locals, {}, value.imported)
        ELSE IF bound.raised
        THEN end(TRUE, bound.name_error, locals, bound.written, value.imported)
        ELSE IF note.raised
        THEN end(TRUE, note.name_error, bound.locals, bound.written,
                 value.imported \/ note.imported)
        ELSE end(FALSE, <<>>, bound.locals, bound.written,
                 value.imported \/ note.imported)

\* the value bound to the targets, then the annotation
Assign(value, targets, note, locals, env) ==
    Conclude(value, BindAll(targets, value.value, locals, env, {}), note, locals)

\* a statement without an annotation to evaluate after its value
NoNote == [raised |-> FALSE, name_error |-> <<>>, value |-> <<>>, imported |-> FALSE]

\* One statement: an expression, an assignment  t1 = ... = value, or an
\* annotated one  target: annotation [= value], whose value is bound before
\* the annotation is evaluated.  An annotation without a value evaluates the
\* object its target is an attribute of.
Statement(items, locals, env) ==
    LET p == Find(items, {<<LABEL>>}, 1)
        segs == SplitAssign(IF p = 0 THEN items ELSE Drop(items, p))
        target == Key(Take(items, p - 1)) \o <<ANSWER>>
        reads == p # 0 /\ Len(segs) = 1 /\ Contains(target, DF) /\ ~OnDataset(target)
    IN  IF items = <<>>
        THEN [raised |-> FALSE, name_error |-> <<>>, locals |-> locals, written |-> {},
              imported |-> FALSE]
        ELSE IF reads
        THEN [raised |-> TRUE,
              name_error |-> IF target[1] = DF THEN <<>> ELSE FirstName(target),
              locals |-> locals, written |-> {}, imported |-> FALSE]
        ELSE Assign(EvalChain(segs[Len(segs)], locals, env, <<>>, FALSE),
                    IF p = 0 THEN [i \in 1..(Len(segs) - 1) |-> Key(segs[i])]
                    ELSE IF Len(segs) = 1 THEN <<>>
                    ELSE <<target>>,
                    IF p # 0 /\ Len(segs) > 1
                    THEN EvalChain(segs[1], locals, env, <<>>, FALSE)
                    ELSE NoNote,
                    locals, env)

\* one line of the snippet
ExecLine(l, locals, env) == Statement(Lex(l, FALSE, <<>>), locals, env)

\* the statements in turn, up to the first that raises
RECURSIVE ExecLines(_, _, _, _, _)

\* after a statement ended as r: the statements left
Continue(r, lines, env, written, imported) ==
    IF r.raised
    THEN [r EXCEPT !.written = written \cup r.written,
                   !.imported = imported \/ r.imported]
    ELSE ExecLines(lines, r.locals, env, written \cup r.written, imported \/ r.imported)

ExecLines(lines, locals, env, written, imported) ==
    IF lines = <<>>
    THEN [raised |-> FALSE, name_error |-> <<>>, locals |-> locals, written |-> written,
          imported |-> imported]
    ELSE Continue(ExecLine(lines[1], locals, env), Tail(lines), env, written, imported)

\* exec(code, safe_globals, local_vars) with local_vars empty: compiling
\* raises SyntaxError, else the statements run.  locals is local_vars after
\* the run, written the attributes of the sandbox's dataset the snippet
\* assigned, imported whether it imported a module.
Exec(code, env) ==
    IF ~Parses(code)
    THEN [raised |-> TRUE, name_error |-> <<>>, locals |-> <<>>, written |-> {},
          imported |-> FALSE]
    ELSE ExecLines(SplitLines(code), <<>>, env, {}, FALSE)

\* ------------------------------------------------- reports/faithfulness.py
\* Scores are counted in hundredths: 100 is the score 1.0.
\*
\* round(x, 2) for x = num / (100 * den), as the set of the hundredths it can
\* return.  Off a tie it is the nearest hundredth.  On a tie between q and
\* q + 1 the float decides: when x is computed exactly (its operands are
\* exact and x is a multiple of 1/8) the even neighbour, otherwise the
\* neighbour on the side the float's error falls.
Round2(num, den, exact) ==
    LET q == num \div den
        r == num % den
    IN  IF 2 * r < den THEN {q}
        ELSE IF 2 * r > den THEN {q + 1}
        ELSE IF exact /\ (2 * q + 1) % 25 = 0
             THEN {IF q % 2 = 0 THEN q ELSE q + 1}
        ELSE {q, q + 1}

\* The narrative text is a sequence of words with one blank between them.  A
\* word is one of the strings below, and a pattern is given by what it finds
\* in each word; no pattern matches across the blank between two of them.
Words ==
    {"1.2.3.4", "5.6.7.8", "9.9.9.9", "suspicious", "bytes", "50%of", "1of2", "rows",
     "2", "dos"}

\* IP_PATTERN: the dotted quads
IP_PATTERN ==
    [word \in Words |->
        IF word \in {"1.2.3.4", "5.6.7.8", "9.9.9.9"} THEN <<word>> ELSE <<>>]

\* NUMBER_PATTERN: digits, at most one dot or comma, digits, between word
\* boundaries; in a dotted quad it finds the two halves
NUMBER_PATTERN ==
    [word \in Words |->
        CASE word = "1.2.3.4" -> <<"1.2", "3.4">>
          [] word = "5.6.7.8" -> <<"5.6", "7.8">>
          [] word = "9.9.9.9" -> <<"9.9", "9.9">>
          [] word = "50%of" -> <<"50">>
          [] word = "2" -> <<"2">>
          [] OTHER -> <<>>]

\* PERCENT_PATTERN: the percent sign must stand in front of a word character
PERCENT_PATTERN == [word \in Words |-> IF word = "50%of" THEN <<"50%">> ELSE <<>>]

\* frac_pattern: a count,  of  or  out of , a count; the blanks are optional
frac_pattern == [word \in Words |-> IF word = "1of2" THEN <<"1of2">> ELSE <<>>]

\* the groups num and den of a match of frac_pattern, as the numbers they read
FractionGroups(s) == CASE s = "1of2" -> [num |-> 1, den |-> 2]

\* the matches of a pattern in a text, from left to right
RECURSIVE finditer(_, _)
finditer(pattern, text) ==
    IF text = <<>> THEN <<>>
    ELSE pattern[Head(text)] \o finditer(pattern, Tail(text))

\* float(s) of a matched number, counted in tenths (a percentage without its
\* sign)
ToFloat(s) ==
    CASE s = "1.2" -> 12 [] s = "3.4" -> 34 [] s = "5.6" -> 56 [] s = "7.8" -> 78
      [] s = "9.9" -> 99 [] s = "50" -> 500 [] s = "50%" -> 500 [] s = "2" -> 20

\* the pieces of a word that the checks look for with  in
Pieces ==
    [word \in Words |->
        CASE word = "1.2.3.4" -> {"1.", "2.", "3."}
          [] word = "5.6.7.8" -> {"5.", "6.", "7."}
          [] word = "9.9.9.9" -> {"9."}
          [] word = "suspicious" -> {"suspicious"}
          [] word = "bytes" -> {"bytes"}
          [] word = "rows" -> {"row"}
          [] word = "dos" -> {"dos"}
          [] OTHER -> {}]

\* the numbers of one to three digits, each with a dot behind it
OctetLike == [num \in {"2", "50"} |-> IF num = "2" THEN "2." ELSE "50."]

\* needle in text
In(needle, text) == \E i \in 1..Len(text) : needle \in Pieces[text[i]]

\* str.lower() of an attack type
Lower(s) == IF s = "Normal" THEN "normal" ELSE s

\* An evidence row gives each of its fields as a set: empty when the row
\* does not have the field, else the one value.
Fields == {"src", "dst", "attackType", "Bytes_int", "bytes", "Duration_sec", "flags"}

\* a field value that is text where a number is expected (such as  n/a ),
\* written as a number that no count is
NotANumber == -1

\* df.columns of the table made of the rows
Columns(rows) == {col \in Fields : \E i \in 1..Len(rows) : rows[i][col] # {}}

\* df[col].sum(): the rows without the field count for nothing
RECURSIVE Sum(_, _)
Sum(rows, col) ==
    IF rows = <<>> THEN 0
    ELSE (IF Head(rows)[col] = {} THEN 0 ELSE CHOOSE v \in Head(rows)[col] : TRUE)
         + Sum(Tail(rows), col)

\* df[col].value_counts().to_dict(), as the set of its <<value, count>> items
value_counts(rows, col) ==
    {<<v, Cardinality({i \in 1..Len(rows) : v \in rows[i][col]})>> :
        v \in UNION {rows[i][col] : i \in 1..Len(rows)}}

\* df["attackType"].fillna("unknown").value_counts().to_dict()
attack_counts(rows) ==
    LET unknown == Cardinality({i \in 1..Len(rows) : rows[i]["attackType"] = {}})
    IN  value_counts(rows, "attackType")
            \cup (IF unknown > 0 THEN {<<"unknown", unknown>>} ELSE {})

\* the rows whose attack type, as a lower-case string, is not "normal"; a row
\* without one reads "nan"
suspicious_rows(rows) ==
    Cardinality({i \in 1..Len(rows) : \A v \in rows[i]["attackType"] : Lower(v) # "normal"})

\* the candidates for the byte count, in the order they are tried (no row here
\* has the two that follow, bytes_in and bytes_out)
BYTE_COLUMNS == <<"Bytes_int", "bytes">>

\* a variant of total_bytes that adds up every candidate column
total_bytes_AllColumns(rows) ==
    IF \A i \in 1..Len(BYTE_COLUMNS) : BYTE_COLUMNS[i] \notin Columns(rows) THEN <<>>
    ELSE <<Sum(rows, BYTE_COLUMNS[1]) + Sum(rows, BYTE_COLUMNS[2])>>

\* aggs["total_bytes"]: the sum of the first candidate column the table has;
\* <<>> when it has none
total_bytes(rows) ==
    LET found == {i \in 1..Len(BYTE_COLUMNS) : BYTE_COLUMNS[i] \in Columns(rows)}
    IN  IF found = {} THEN <<>>
        ELSE <<Sum(rows, BYTE_COLUMNS[CHOOSE i \in found : \A j \in found : i <= j])>>

\* int(df[col].sum()) raises: a value of the first candidate column the table
\* has is text
SumRaises(rows) ==
    LET found == {i \in 1..Len(BYTE_COLUMNS) : BYTE_COLUMNS[i] \in Columns(rows)}
    IN  /\ found # {}
        /\ \E k \in 1..Len(rows) :
               NotANumber \in rows[k][BYTE_COLUMNS[CHOOSE i \in found : \A j \in found : i <= j]]

\* aggs["mean_duration"]: the mean of the Duration_sec column as the pair
\* <<sum, count>> over the rows that have the field (no row here has the two
\* candidates that follow, duration and time); <<>> when the table has none
mean_duration(rows) ==
    IF "Duration_sec" \notin Columns(rows) THEN <<>>
    ELSE <<<<Sum(rows, "Duration_sec"),
             Cardinality({i \in 1..Len(rows) : rows[i]["Duration_sec"] # {}})>>>>

\* a variant of _compute_aggregates with a handler of its own around each
\* aggregate: a sum that raises leaves out the byte count only
_compute_aggregates_OwnHandlers(rows) ==
    [n_rows |-> Len(rows),
     top_src |-> IF "src" \in Columns(rows) THEN <<value_counts(rows, "src")>> ELSE <<>>,
     top_dst |-> IF "dst" \in Columns(rows) THEN <<value_counts(rows, "dst")>> ELSE <<>>,
     total_bytes |-> IF SumRaises(rows) THEN <<>> ELSE total_bytes(rows),
     mean_duration |-> mean_duration(rows),
     flags_flags |-> IF "flags" \in Columns(rows)
                     THEN <<value_counts(rows, "flags")>> ELSE <<>>,
     attack_counts |-> IF "attackType" \in Columns(rows) THEN attack_counts(rows) ELSE {},
     suspicious_rows |-> IF "attackType" \in Columns(rows)
                         THEN <<suspicious_rows(rows)>> ELSE <<>>]

\* _compute_aggregates and the aggregates compute_detailed_faithfulness adds to
\* them.  An aggregate that may be missing or None is <<>> then, else <<v>>.
\* The one handler of _compute_aggregates ends it at the sum that raises: the
\* aggregates after it are not computed.
_compute_aggregates(rows) ==
    [n_rows |-> Len(rows),
     top_src |-> IF "src" \in Columns(rows) THEN <<value_counts(rows, "src")>> ELSE <<>>,
     top_dst |-> IF "dst" \in Columns(rows) THEN <<value_counts(rows, "dst")>> ELSE <<>>,
     total_bytes |-> IF SumRaises(rows) THEN <<>> ELSE total_bytes(rows),
     mean_duration |-> IF SumRaises(rows) THEN <<>> ELSE mean_duration(rows),
     flags_flags |-> IF SumRaises(rows) \/ "flags" \notin Columns(rows) THEN <<>>
                     ELSE <<value_counts(rows, "flags")>>,
     attack_counts |-> IF "attackType" \in Columns(rows) THEN attack_counts(rows) ELSE {},
     suspicious_rows |-> IF "attackType" \in Columns(rows)
                         THEN <<suspicious_rows(rows)>> ELSE <<>>]

\* the claimed addresses that are the src or the dst of an evidence row
Verified(ips, evidence_list) ==
    {ip \in ips : \E i \in 1..Len(evidence_list) :
                      ip \in evidence_list[i]["src"] \/ ip \in evidence_list[i]["dst"]}

\* a variant of compute_simple_faithfulness that does not round the trust: it
\* truncates it to the hundredth below
compute_simple_faithfulness_Truncates(ips, evidence_list) ==
    LET verified == Cardinality(Verified(ips, evidence_list))
    IN  {[trust |-> IF ips = {} THEN 100 ELSE (100 * verified) \div Cardinality(ips),
          ips_claimed |-> ips, ips_verified |-> verified]}

\* compute_simple_faithfulness, as the set of its possible results
\* [trust, ips_claimed, ips_verified]; ips is what IP_PATTERN finds in the text
compute_simple_faithfulness(ips, evidence_list) ==
    LET verified == Cardinality(Verified(ips, evidence_list))
        trusts == IF ips = {} THEN {100}
                  ELSE Round2(100 * verified, Cardinality(ips), TRUE)
    IN  {[trust |-> t, ips_claimed |-> ips, ips_verified |-> verified] : t \in trusts}

\* a variant of trust_score that takes the whole share of unsupported claims
\* off the trust, not half of it
trust_score_FullPenalty(trust, unsupported, claims) ==
    IF claims = 0 THEN {trust}
    ELSE LET num == claims * trust - 100 * unsupported
         IN  IF num <= 0 THEN {0} ELSE Round2(num, claims, trust % 25 = 0)

\* a variant of trust_score without the floor at 0.0
trust_score_NoFloor(trust, unsupported, claims) ==
    IF claims = 0 THEN {trust}
    ELSE {(2 * claims * trust - 100 * unsupported) \div (2 * claims)}

\* the trust score of a report: the address trust, less half the share of
\* unsupported claims, not below 0.0, rounded to two decimals
trust_score(trust, unsupported, claims) ==
    IF claims = 0 THEN {trust}
    ELSE LET num == 2 * claims * trust - 100 * unsupported
         IN  IF num <= 0 THEN {0}
             ELSE Round2(num, 2 * claims, trust % 25 = 0)

\* the text of the narrative: the summary, then the text of each
\* recommendation
RECURSIVE RecTexts(_)
RecTexts(recommendations) ==
    IF recommendations = <<>> THEN <<>>
    ELSE Head(recommendations).text \o RecTexts(Tail(recommendations))

Flatten(llm_output) == llm_output.summary \o RecTexts(llm_output.recommendations)

\* the claims of a text in parse order: the percentages, then the fractions,
\* then the plain numbers.  A number of one to three digits that the text also
\* holds with a dot behind it is skipped.
Claims(text) ==
    LET percents == finditer(PERCENT_PATTERN, text)
        fractions == finditer(frac_pattern, text)
        numbers == SelectSeq(finditer(NUMBER_PATTERN, text),
                             LAMBDA num : ~(num \in DOMAIN OctetLike
                                            /\ In(OctetLike[num], text)))
        n == Len(percents)
        m == n + Len(fractions)
    IN  [i \in 1..(m + Len(numbers)) |->
            IF i <= n
            THEN [pos |-> i, type |-> "percent", text |-> percents[i],
                  value |-> ToFloat(percents[i])]
            ELSE IF i <= m
            THEN LET g == FractionGroups(fractions[i - n])
                 IN  [pos |-> i, type |-> "fraction", text |-> fractions[i - n],
                      num |-> g.num, den |-> g.den,
                      value |-> (10 * g.num) \div (IF g.den > 1 THEN g.den ELSE 1)]
            ELSE [pos |-> i, type |-> "number", text |-> numbers[i - m],
                  value |-> ToFloat(numbers[i - m])]]

\* |value - n| <= max(1.0, n) * tolerance for a value in tenths, the
\* tolerance at its default 0.1
Near(value, n) ==
    LET d == IF value >= 10 * n THEN value - 10 * n ELSE 10 * n - value
    IN  d <= (IF n > 1 THEN n ELSE 1)

\* the verdict ok of the support loop on claim c
Supported(c, text, aggs) ==
    IF c.type = "fraction"
    THEN /\ \E k \in {"row", "flow", "record"} : In(k, text)
         /\ aggs.n_rows # 0
         /\ LET d == IF c.den >= aggs.n_rows THEN c.den - aggs.n_rows
                     ELSE aggs.n_rows - c.den
            IN  10 * d <= (IF aggs.n_rows > 10 THEN aggs.n_rows ELSE 10)
    ELSE IF c.type = "percent"
    THEN IF In("suspicious", text) /\ aggs.suspicious_rows # <<>> /\ aggs.n_rows # 0
         THEN LET s == aggs.suspicious_rows[1]
                  n == aggs.n_rows
                  d == IF 1000 * s >= c.value * n THEN 1000 * s - c.value * n
                       ELSE c.value * n - 1000 * s
              IN  d <= (IF 100 * s > 10 * n THEN 100 * s ELSE 10 * n)
         ELSE In("bytes", text) /\ aggs.total_bytes # <<>>
    ELSE \/ /\ \E k \in {"row", "flow", "record"} : In(k, text)
            /\ Near(c.value, aggs.n_rows)
         \/ /\ \E k \in {"suspicious", "flagged"} : In(k, text)
            /\ aggs.suspicious_rows # <<>>
            /\ Near(c.value, aggs.suspicious_rows[1])
         \/ \E item \in aggs.attack_counts :
                /\ LET d == IF c.value >= 10 * item[2] THEN c.value - 10 * item[2]
                            ELSE 10 * item[2] - c.value
                   IN  d <= (IF item[2] > 10 THEN item[2] ELSE 10)
                /\ In(Lower(item[1]), text)

NoReport ==
    [raised |-> FALSE,
     ip_check |-> [trust |-> 0, ips_claimed |-> {}, ips_verified |-> 0],
     aggregates |-> _compute_aggregates(<<>>),
     claims_parsed |-> <<>>, supported_claims |-> <<>>, unsupported_claims |-> <<>>,
     trust_score |-> 0]

\* a variant of the support loop that puts each unsupported claim in front of
\* the ones before it
SupportLoop_Prepends(claims, text, aggs) ==
    LET unsupported == SelectSeq(claims, LAMBDA c : ~Supported(c, text, aggs))
    IN  [supported |-> SelectSeq(claims, LAMBDA c : Supported(c, text, aggs)),
         unsupported |-> [i \in 1..Len(unsupported) |->
                             unsupported[Len(unsupported) + 1 - i]]]

\* the support loop: each claim, in parse order, is appended to supported when
\* its verdict is ok and to unsupported when it is not
SupportLoop(claims, text, aggs) ==
    [supported |-> SelectSeq(claims, LAMBDA c : Supported(c, text, aggs)),
     unsupported |-> SelectSeq(claims, LAMBDA c : ~Supported(c, text, aggs))]

\* the call raises AttributeError: a recommendation that is a string has no
\* .get; a DataFrame given to the address check is iterated by its column
\* labels, which have no .get either, once an address is claimed
Raises(llm_output, evidence) ==
    \/ \E i \in 1..Len(llm_output.recommendations) : llm_output.recommendations[i].is_str
    \/ /\ evidence.form = "frame"
       /\ finditer(IP_PATTERN, Flatten(llm_output)) # <<>>
       /\ Columns(evidence.rows) # {}

\* compute_detailed_faithfulness, as the set of its possible outcomes: the
\* reports it may return, or the one outcome raised
compute_detailed_faithfulness(llm_output, evidence) ==
    LET text == Flatten(llm_output)
        aggs == _compute_aggregates(evidence.rows)
        ips == {text[i] : i \in {j \in 1..Len(text) : IP_PATTERN[text[j]] # <<>>}}
        claims == Claims(text)
        loop == SupportLoop(claims, text, aggs)
        supported == loop.supported
        unsupported == loop.unsupported
    IN  IF Raises(llm_output, evidence) THEN {[NoReport EXCEPT !.raised = TRUE]}
        ELSE UNION {{[raised |-> FALSE,
                      ip_check |-> ip_result,
                      aggregates |-> aggs,
                      claims_parsed |-> claims,
                      supported_claims |-> supported,
                      unsupported_claims |-> unsupported,
                      trust_score |-> score] :
                        score \in trust_score(ip_result.trust, Len(unsupported),
                                              Len(claims))} :
                     ip_result \in compute_simple_faithfulness(ips, evidence.rows)}

\* ---------------------------------------------------------------- the model
VARIABLES
    pc,          \* where the request stands
    raw_text,    \* the text the language model returned
    out,         \* what fix_invalid_code returned last: [raised, code, via, tried]
    OPENAI_KEY,  \* whether the API key is configured
    calls,       \* the clients called so far, in order
    code,        \* the snippet: [is_str, text]
    fixes,       \* the snippets fix_invalid_code was applied to, in order
    executed,    \* the snippets passed to exec, in order
    heap,        \* the dataset objects: heap[ref] is what the snippets wrote to it
    sandbox,     \* the dataset object in safe_globals, 0 before there is one
    ex,          \* how exec ended: [raised, name_error, imported]
    local_vars,  \* local_vars after exec
    response,    \* what run_llm_query returned: [status, error, keys, result]
    narrative,   \* the narrative to check: [summary, recommendations]
    evidence,    \* the evidence: [form, rows]
    report,      \* the report of compute_detailed_faithfulness
    requests,    \* the requests under way at once: [pc, code, sandbox, response] each
    pd           \* the attributes the snippets set on the module pd of safe_globals

\* the state of a run_llm_query request but for pc
run_vars == <<raw_text, out, OPENAI_KEY, calls, code, fixes, executed, heap, sandbox,
              ex, local_vars, response>>

\* the state of a faithfulness check
faith_vars == <<narrative, evidence, report>>

\* the state of requests that run at once
par_vars == <<requests, pd>>

vars == <<pc, run_vars, faith_vars, par_vars>>

\* the longest model output, in tokens
MaxLen == 4

\* the texts of at most n tokens of A
RECURSIVE Texts(_, _)
Texts(A, n) ==
    IF n = 0 THEN {<<>>}
    ELSE LET shorter == Texts(A, n - 1)
         IN  shorter \cup {Append(s, t) : s \in shorter, t \in A}

\* what the language model may return: code of up to MaxLen tokens, or
\* shorter text that also holds presentation artifacts
RawTexts ==
    Texts(CoreTok, MaxLen) \cup Texts(CoreTok \cup ArtifactTok \cup PatternTok, MaxLen - 1)

NoOut == [raised |-> FALSE, code |-> <<>>, via |-> "none", tried |-> <<>>]

\* the caller's dataset object, and its content before the request
df == 1
Original == {}

NoCode == [is_str |-> TRUE, text |-> <<>>]
NoEx == [raised |-> FALSE, name_error |-> <<>>, imported |-> FALSE]
NoResponse == [status |-> "none", error |-> <<>>, keys |-> {}, result |-> <<>>]
NoNarrative == [summary |-> <<>>, recommendations |-> <<>>]
NoEvidence == [form |-> "list", rows |-> <<>>]

\* no faithfulness check is under way
FaithIdle == narrative = NoNarrative /\ evidence = NoEvidence /\ report = NoReport

\* no requests run at once
ParIdle == requests = <<>> /\ pd = {}

\* ---- the repair pipeline on its own
FixInit ==
    /\ pc = "raw"
    /\ raw_text \in RawTexts
    /\ out = NoOut
    /\ OPENAI_KEY = TRUE
    /\ calls = <<>>
    /\ code = NoCode
    /\ fixes = <<>>
    /\ executed = <<>>
    /\ heap = <<Original>>
    /\ sandbox = 0
    /\ ex = NoEx
    /\ local_vars = <<>>
    /\ response = NoResponse
    /\ FaithIdle
    /\ ParIdle

\* fix_invalid_code(raw_text)
Repair ==
    /\ UNCHANGED <<faith_vars, par_vars>>
    /\ pc = "raw"
    /\ out' = fix_invalid_code(raw_text)
    /\ fixes' = <<raw_text>>
    /\ pc' = "repaired"
    /\ UNCHANGED <<raw_text, OPENAI_KEY, calls, code, executed, heap, sandbox, ex,
                   local_vars, response>>

FixNext == Repair

SpecFix == FixInit /\ [][FixNext]_vars

\* ---- the Danger Neutralizer on its own
\* the tokens of the snippets the neutralizer is followed with
SanTok == {X, OPEN, CALL, SP, NL, IMPORT, OS, DOTSYS, MARK}

\* no request is under way
RunIdle ==
    /\ OPENAI_KEY = TRUE
    /\ calls = <<>>
    /\ code = NoCode
    /\ fixes = <<>>
    /\ executed = <<>>
    /\ heap = <<Original>>
    /\ sandbox = 0
    /\ ex = NoEx
    /\ local_vars = <<>>
    /\ response = NoResponse

SanInit ==
    /\ pc = "snippet"
    /\ raw_text \in Texts(SanTok, MaxLen)
    /\ out = NoOut
    /\ RunIdle
    /\ FaithIdle
    /\ ParIdle

\* _sanitize_dangerous(raw_text)
Sanitize ==
    /\ UNCHANGED <<faith_vars, par_vars>>
    /\ pc = "snippet"
    /\ out' = [NoOut EXCEPT !.code = _sanitize_dangerous(raw_text), !.via = "sanitized"]
    /\ pc' = "sanitized"
    /\ UNCHANGED <<raw_text, OPENAI_KEY, calls, code, fixes, executed, heap, sandbox, ex,
                   local_vars, response>>

SanNext == Sanitize

SpecSan == SanInit /\ [][SanNext]_vars

\* ---- run_llm_query
\* the tokens of the snippets a request is followed with
RunTok == {DF, X, OPEN, CALL, EQ, RESULT, NL, LEN, IMPORT_OS}

\* What the language model may answer: a bare snippet; shorter text with
\* presentation artifacts or a JSON object whose code is a number; a JSON
\* object whose code is a string.
Responses ==
    Texts(RunTok, MaxLen)
        \cup Texts(CoreTok \cup ArtifactTok \cup {JNUM}, MaxLen - 2)
        \cup {<<JOPEN>> \o t \o <<JCLOSE>> : t \in Texts(RunTok \cup {ESC_N}, MaxLen - 2)}

\* the results run_llm_query returns; error is the message, in its parts
Error(error, keys) ==
    [status |-> "error", error |-> error, keys |-> {"status", "error"} \cup keys,
     result |-> <<>>]

KeyMissing == Error(<<"OpenAI key not configured on server.">>, {})

\* a variant of LLMFailed that reports the legacy client's error alone
LLMFailed_OldOnly(e_new, e_old) == Error(<<"LLM call failed. OldErr:", e_old>>, {})

LLMFailed(e_new, e_old) ==
    Error(<<"LLM call failed. NewErr:", e_new, " OldErr:", e_old>>, {})

InvalidCode ==
    Error(<<"LLM returned invalid/unparsable Python and fixer couldn't fix it.">>,
          {"raw_llm", "attempted_fix", "trace"})
ExecutionError ==
    Error(<<"Exception during code execution">>,
          {"exec_error", "traceback", "raw_llm", "executed_code"})
ContractViolation ==
    Error(<<"Code executed but did not set 'result' variable.">>,
          {"executed_code", "raw_llm"})
Success(result) ==
    [status |-> "success", error |-> <<>>,
     keys |-> {"status", "answer", "code", "result_preview", "result_type", "raw_llm"},
     result |-> result]

\* an exception left run_llm_query
Raised == [status |-> "raised", error |-> <<>>, keys |-> {}, result |-> <<>>]

\* what str(e) is of the exception a failed call raised: one message for the
\* modern client, another for the legacy client
NewErr == "the modern client failed"
OldErr == "the legacy client failed"

\* a call of a client: error is str(e) of the exception it raised, "" if it
\* answered
Answered(client) == [client |-> client, error |-> ""]
Failed(client, e) == [client |-> client, error |-> e]

RunInit ==
    /\ pc = "start"
    /\ raw_text = <<>>
    /\ out = NoOut
    /\ OPENAI_KEY \in BOOLEAN
    /\ calls = <<>>
    /\ code = NoCode
    /\ fixes = <<>>
    /\ executed = <<>>
    /\ heap = <<Original>>
    /\ sandbox = 0
    /\ ex = NoEx
    /\ local_vars = <<>>
    /\ response = NoResponse
    /\ FaithIdle
    /\ ParIdle

\* if not OPENAI_KEY: return the error
CheckKey ==
    /\ UNCHANGED <<faith_vars, par_vars>>
    /\ pc = "start"
    /\ IF OPENAI_KEY
       THEN pc' = "call_new" /\ UNCHANGED response
       ELSE pc' = "done" /\ response' = KeyMissing
    /\ UNCHANGED <<raw_text, out, OPENAI_KEY, calls, code, fixes, executed, heap, sandbox,
                   ex, local_vars>>

\* The call through the modern client: it answers, or it raises.
\* _get_text_from_openai_response returns the content of the answer, or the
\* printed form of the answer when the content is empty: never the empty text.
CallNew ==
    /\ UNCHANGED <<faith_vars, par_vars>>
    /\ pc = "call_new"
    /\ \/ \E text \in Responses \ {<<>>} :
            /\ raw_text' = text
            /\ calls' = Append(calls, Answered("new"))
            /\ pc' = "select"
       \/ /\ raw_text' = raw_text
          /\ calls' = Append(calls, Failed("new", NewErr))
          /\ pc' = "call_old"
    /\ UNCHANGED <<out, OPENAI_KEY, code, fixes, executed, heap, sandbox, ex, local_vars,
                   response>>

\* the call through the legacy client: it answers, or it raises too
CallOld ==
    /\ UNCHANGED <<faith_vars, par_vars>>
    /\ pc = "call_old"
    /\ \/ \E text \in Responses :
            /\ raw_text' = text
            /\ calls' = Append(calls, Answered("old"))
            /\ pc' = "select"
            /\ response' = response
       \/ /\ raw_text' = raw_text
          /\ calls' = Append(calls, Failed("old", OldErr))
          /\ pc' = "done"
          /\ response' = LLMFailed(calls[Len(calls)].error, OldErr)
    /\ UNCHANGED <<out, OPENAI_KEY, code, fixes, executed, heap, sandbox, ex, local_vars>>

\* the code of a JSON object if there is one, else the code block of the
\* text, else the text
SelectCode ==
    /\ UNCHANGED <<faith_vars, par_vars>>
    /\ pc = "select"
    /\ LET parsed_json == extract_json_from_text(raw_text)
           block == extract_code_block(raw_text)
       IN  code' = IF parsed_json.found
                   THEN [is_str |-> parsed_json.code_is_str, text |-> parsed_json.code]
                   ELSE [is_str |-> TRUE, text |-> IF block # <<>> THEN block ELSE raw_text]
    /\ pc' = "ensure"
    /\ UNCHANGED <<raw_text, out, OPENAI_KEY, calls, fixes, executed, heap, sandbox, ex,
                   local_vars, response>>

\* the second wrap of run_llm_query: a valid one-line snippet without = and
\* without the text result becomes the result binding
SecondWrap(maybe_fixed) ==
    IF /\ ~HasResult(maybe_fixed)
       /\ is_valid_python(maybe_fixed)
       /\ Len(NonBlank(SplitLines(maybe_fixed))) = 1
       /\ ~HasEq(maybe_fixed)
    THEN <<RESULT, SP, EQ, SP>> \o Strip(maybe_fixed)
    ELSE maybe_fixed

\* if "result" not in code: the snippet goes through fix_invalid_code.  The
\* test raises TypeError when the code is no string, and what
\* fix_invalid_code raises is not caught.
EnsureResult ==
    /\ UNCHANGED <<faith_vars, par_vars>>
    /\ pc = "ensure"
    /\ LET fixed == fix_invalid_code(code.text) IN
       IF ~code.is_str
       THEN /\ pc' = "done"
            /\ response' = Raised
            /\ UNCHANGED <<out, code, fixes>>
       ELSE IF HasResult(code.text)
       THEN /\ pc' = "validate"
            /\ UNCHANGED <<out, code, fixes, response>>
       ELSE /\ out' = fixed
            /\ fixes' = Append(fixes, code.text)
            /\ IF fixed.raised
               THEN pc' = "done" /\ response' = Raised /\ UNCHANGED code
               ELSE /\ pc' = "validate"
                    /\ code' = [code EXCEPT !.text = SecondWrap(fixed.code)]
                    /\ UNCHANGED response
    /\ UNCHANGED <<raw_text, OPENAI_KEY, calls, executed, heap, sandbox, ex, local_vars>>

\* if not is_valid_python(code): one more repair, and the error if the
\* snippet still does not parse
ValidateSyntax ==
    /\ UNCHANGED <<faith_vars, par_vars>>
    /\ pc = "validate"
    /\ LET code2 == fix_invalid_code(code.text) IN
       IF is_valid_python(code.text)
       THEN /\ pc' = "execute"
            /\ UNCHANGED <<out, code, fixes, response>>
       ELSE /\ out' = code2
            /\ fixes' = Append(fixes, code.text)
            /\ IF code2.raised
               THEN pc' = "done" /\ response' = Raised /\ UNCHANGED code
               ELSE IF is_valid_python(code2.code)
               THEN /\ pc' = "execute"
                    /\ code' = [code EXCEPT !.text = code2.code]
                    /\ UNCHANGED response
               ELSE pc' = "done" /\ response' = InvalidCode /\ UNCHANGED code
    /\ UNCHANGED <<raw_text, OPENAI_KEY, calls, executed, heap, sandbox, ex, local_vars>>

\* a variant of copy that hands out the object itself
copy_Alias(h, obj) == [heap |-> h, ref |-> obj]

\* df.copy(): a new object with the content of obj, as [heap, ref]
copy(h, obj) == [heap |-> Append(h, h[obj]), ref |-> Len(h) + 1]

\* a variant of Execute that runs the snippet a second time when the first
\* run raised
Execute_Retries ==
    /\ UNCHANGED <<faith_vars, par_vars>>
    /\ pc = "execute"
    /\ \E env \in Envs :
         LET copied == copy(heap, df)
             r == Exec(code.text, env)
         IN  /\ sandbox' = copied.ref
             /\ heap' = [copied.heap EXCEPT ![copied.ref] = @ \cup r.written]
             /\ executed' = Append(executed, code.text)
             /\ ex' = [raised |-> r.raised, name_error |-> r.name_error,
                       imported |-> r.imported]
             /\ local_vars' = r.locals
             /\ IF r.raised
                THEN IF executed = <<>>
                     THEN pc' = "execute" /\ UNCHANGED response
                     ELSE pc' = "done" /\ response' = ExecutionError
                ELSE pc' = "finish" /\ UNCHANGED response
    /\ UNCHANGED <<raw_text, out, OPENAI_KEY, calls, code, fixes>>

\* exec(code, safe_globals, local_vars) on a copy of the dataset; an
\* exception ends the request with the execution error
Execute ==
    /\ UNCHANGED <<faith_vars, par_vars>>
    /\ pc = "execute"
    /\ \E env \in Envs :
         LET copied == copy(heap, df)
             r == Exec(code.text, env)
         IN  /\ sandbox' = copied.ref
             /\ heap' = [copied.heap EXCEPT ![copied.ref] = @ \cup r.written]
             /\ executed' = Append(executed, code.text)
             /\ ex' = [raised |-> r.raised, name_error |-> r.name_error,
                       imported |-> r.imported]
             /\ local_vars' = r.locals
             /\ IF r.raised
                THEN pc' = "done" /\ response' = ExecutionError
                ELSE pc' = "finish" /\ UNCHANGED response
    /\ UNCHANGED <<raw_text, out, OPENAI_KEY, calls, code, fixes>>

\* a variant of the contract test that takes result for bound
ResultBound_Always(locals) == TRUE

\* "result" in local_vars
ResultBound(locals) == <<RESULT>> \in DOMAIN locals

\* the contract violation if result is not bound, else the preview of result
Finish ==
    /\ UNCHANGED <<faith_vars, par_vars>>
    /\ pc = "finish"
    /\ response' = IF ~ResultBound(local_vars) THEN ContractViolation
                   ELSE Success(IF <<RESULT>> \in DOMAIN local_vars
                                THEN local_vars[<<RESULT>>] ELSE <<>>)
    /\ pc' = "done"
    /\ UNCHANGED <<raw_text, out, OPENAI_KEY, calls, code, fixes, executed, heap, sandbox,
                   ex, local_vars>>

RunNext ==
    \/ CheckKey
    \/ CallNew
    \/ CallOld
    \/ SelectCode
    \/ EnsureResult
    \/ ValidateSyntax
    \/ Execute
    \/ Finish

SpecRun == RunInit /\ [][RunNext]_vars

\* ---- requests at once
\* Two callers run run_llm_query on the same dataset at the same time.  Each
\* request is followed from the point where its snippet has been validated:
\* it builds safe_globals, with a copy of the dataset and the module pd, and
\* then runs the snippet and answers.
Requests == 1..2

\* the longest snippet of a request at once, in tokens
MaxParLen == 4

\* the tokens of these snippets
ParTok == {DF, PD, EQ, RESULT}

\* the snippets that reach exec as they are: they hold result and parse
ParSnippets == {t \in Texts(ParTok, MaxParLen) : HasResult(t) /\ is_valid_python(t)}

\* the dataset of the requests: its column takes an assignment and compares
\* elementwise, and has no truth value
ParEnv == [lib_raises |-> FALSE, truth |-> "raises"]

\* exec(snippet, safe_globals, local_vars) when the module pd of safe_globals
\* has the attributes attrs: every value a snippet of ParTok can bind is the
\* column, so that is what each of them holds
ExecShared(snippet, env, attrs) ==
    ExecLines(SplitLines(snippet), [k \in attrs |-> <<"series">>], env, {}, FALSE)

\* what run_llm_query returns after exec ended as r
Outcome(r) ==
    IF r.raised THEN ExecutionError
    ELSE IF ~ResultBound(r.locals) THEN ContractViolation
    ELSE Success(r.locals[<<RESULT>>])

\* what a request with this snippet returns when no other request runs
Alone(snippet) == Outcome(ExecShared(snippet, ParEnv, {}))

ParInit ==
    /\ pc = "requests"
    /\ requests \in [Requests -> {[pc |-> "execute", code |-> c, sandbox |-> 0,
                                    response |-> NoResponse] : c \in ParSnippets}]
    /\ pd = {}
    /\ raw_text = <<>>
    /\ out = NoOut
    /\ RunIdle
    /\ FaithIdle

\* safe_globals = {"pd": pd, "np": ..., "df": df.copy(), ...} of request i
SafeGlobals(i) ==
    /\ requests[i].pc = "execute"
    /\ LET copied == copy(heap, df) IN
         /\ heap' = copied.heap
         /\ requests' = [requests EXCEPT ![i].pc = "exec", ![i].sandbox = copied.ref]
    /\ UNCHANGED <<pc, raw_text, out, OPENAI_KEY, calls, code, fixes, executed, sandbox,
                   ex, local_vars, response, faith_vars, pd>>

\* exec(code, safe_globals, local_vars) of request i, and what it returns
ExecSnippet(i) ==
    /\ requests[i].pc = "exec"
    /\ LET r == ExecShared(requests[i].code, ParEnv, pd) IN
         /\ heap' = [heap EXCEPT ![requests[i].sandbox] =
                                     @ \cup {k \in r.written : OnDataset(k)}]
         /\ pd' = pd \cup {k \in r.written : OnModule(k)}
         /\ requests' = [requests EXCEPT ![i].pc = "done", ![i].response = Outcome(r)]
    /\ UNCHANGED <<pc, raw_text, out, OPENAI_KEY, calls, code, fixes, executed, sandbox,
                   ex, local_vars, response, faith_vars>>

ParNext == \E i \in Requests : SafeGlobals(i) \/ ExecSnippet(i)

SpecPar == ParInit /\ [][ParNext]_vars

\* ---- compute_detailed_faithfulness
\* the most words of a summary, and the most rows of evidence
MaxWords == 2
MaxRows == 2

\* the words of a summary, and the text of a recommendation
SummaryWords ==
    {"1.2.3.4", "5.6.7.8", "suspicious", "bytes", "50%of", "1of2", "rows", "2", "dos"}
RecText == {<<"9.9.9.9">>, <<"bytes">>}

\* the evidence rows
Row(src, dst, attackType, Bytes_int, bytes, Duration_sec, flags) ==
    [f \in Fields |->
        CASE f = "src" -> src [] f = "dst" -> dst [] f = "attackType" -> attackType
          [] f = "Bytes_int" -> Bytes_int [] f = "bytes" -> bytes
          [] f = "Duration_sec" -> Duration_sec [] f = "flags" -> flags]

Rows ==
    {Row({"1.2.3.4"}, {"5.6.7.8"}, {"Normal"}, {100}, {}, {2}, {}),
     Row({"2.2.2.2"}, {"1.2.3.4"}, {"dos"}, {200}, {5}, {}, {"S"}),
     Row({"9.9.9.9"}, {}, {}, {}, {2}, {}, {}),
     Row({}, {}, {}, {NotANumber}, {}, {3}, {"A"})}

\* the sequences of at most n elements of S
RECURSIVE SeqsUpTo(_, _)
SeqsUpTo(S, n) ==
    IF n = 0 THEN {<<>>}
    ELSE LET shorter == SeqsUpTo(S, n - 1)
         IN  shorter \cup {Append(q, e) : q \in shorter, e \in S}

FaithInit ==
    /\ pc = "narrated"
    /\ narrative \in [summary : SeqsUpTo(SummaryWords, MaxWords),
                       recommendations :
                           {<<>>} \cup {<<[is_str |-> b, text |-> t]>> :
                                            b \in BOOLEAN, t \in RecText}]
    /\ evidence \in [form : {"list", "frame"}, rows : SeqsUpTo(Rows, MaxRows)]
    /\ report = NoReport
    /\ raw_text = <<>>
    /\ out = NoOut
    /\ OPENAI_KEY = TRUE
    /\ calls = <<>>
    /\ code = NoCode
    /\ fixes = <<>>
    /\ executed = <<>>
    /\ heap = <<Original>>
    /\ sandbox = 0
    /\ ex = NoEx
    /\ local_vars = <<>>
    /\ response = NoResponse
    /\ ParIdle

\* report = compute_detailed_faithfulness(narrative, evidence)
Check ==
    /\ pc = "narrated"
    /\ report' \in compute_detailed_faithfulness(narrative, evidence)
    /\ pc' = IF report'.raised THEN "raised" ELSE "reported"
    /\ UNCHANGED <<narrative, evidence, run_vars, par_vars>>

FaithNext == Check

SpecFaith == FaithInit /\ [][FaithNext]_vars

\* =================================================================== claims
Repaired == pc = "repaired"

\* a match of a dangerous pattern somewhere in s
HasDanger(s) ==
    \E n \in 1..Len(DANGEROUS_PATTERNS), i \in 1..Len(s) :
        DangerEnd(DANGEROUS_PATTERNS[n], s, i) # 0

\* the request is over: run_llm_query returned or raised
Done == pc = "done"

\* run_llm_query returned a result
Returned == Done /\ response.status \in {"success", "error"}

\* ---- C1
\* C1 as stated: exec is only ever passed a snippet that parses, and on every
\* path a request whose snippet is still unparseable ends with a status
\* "error" result, exec not reached.
C1_ExecOnlyParsed ==
    /\ \A i \in 1..Len(executed) : Parses(executed[i])
    /\ pc = "execute" => (code.is_str /\ Parses(code.text))
    /\ (Done /\ raw_text # <<>> /\ ~(code.is_str /\ Parses(code.text)))
           => (response.status = "error" /\ executed = <<>>)

\* the half of C1 that holds on every path: what exec is passed parses
C1_ExecutedParses ==
    /\ \A i \in 1..Len(executed) : Parses(executed[i])
    /\ pc = "execute" => (code.is_str /\ Parses(code.text))

C3_ForbiddenCapability ==
    (Done /\ executed # <<>> /\ (ex.imported \/ ex.name_error # <<>>))
        => response = ExecutionError

\* the half of C3 that holds: a name that is neither bound by the snippet
\* nor one of the twelve built-ins ends the request in ExecutionError
C3_UnknownName ==
    (Done /\ executed # <<>> /\ ex.name_error # <<>>) => response = ExecutionError

\* ---- C4
\* C4: the trust score of every report lies between 0.0 and 1.0, whatever the
\* numbers of claimed and verified addresses and of parsed and unsupported
\* claims.
C4_TrustScoreInRange ==
    pc = "reported" => (report.trust_score >= 0 /\ report.trust_score <= 100)

\* C4 witness: a report whose penalty is larger than its address trust, kept
\* at 0.0 by the floor
C4_Witness ==
    /\ pc = "reported"
    /\ report.ip_check.trust = 0
    /\ report.unsupported_claims # <<>>
    /\ report.trust_score = 0

\* ---- C5
\* C5 as stated: no exception ever escapes fix_invalid_code; whatever the
\* input text, the function returns a snippet.
C5_NoExceptionEscapes == Repaired => ~out.raised

\* ---- C6
\* C6 as stated: run_llm_query never raises to its caller; for every answer
\* of the language model and every behaviour of the snippet it returns a
\* result whose status is "success" or "error".
C6_NeverRaises == Done => response.status \in {"success", "error"}

\* ---- C7
\* C7: a snippet that runs without raising and leaves result unbound ends in
\* the contract violation, never in Success; an execution exception, and it
\* alone, carries exec_error and traceback.
C7_ContractViolation ==
    /\ (Done /\ executed # <<>> /\ ~ex.raised /\ <<RESULT>> \notin DOMAIN local_vars)
           => response = ContractViolation
    /\ Returned => (({"exec_error", "traceback"} \subseteq response.keys)
                        <=> (executed # <<>> /\ ex.raised))
    /\ Returned => (({"exec_error", "traceback"} \cap response.keys = {})
                        <=> ~(executed # <<>> /\ ex.raised))
    /\ response = ContractViolation => (executed # <<>> /\ ~ex.raised)

\* C7 witness: x = () ran and bound no result
C7_Witness ==
    /\ Done
    /\ executed = << <<X, EQ, CALL>> >>
    /\ ~ex.raised
    /\ response = ContractViolation

\* ---- C8
\* C8: the outcome tells its caller VALIDATED from BEST_EFFORT.  The function
\* returns the snippet alone; what tells the two apart downstream is the
\* snippet itself: a snippet returned as validated (parsed at once or after a
\* fallback) parses, and a snippet returned as best effort does not.
C8_OutcomeDistinguishable ==
    (Repaired /\ ~out.raised) =>
        /\ out.via \in {"empty", "parsed", "fallback_a", "fallback_b", "best_effort"}
        /\ (out.via = "best_effort") <=> ~is_valid_python(out.code)

\* C8 witnesses: a best-effort return, and a return validated by a fallback
C8_Witness ==
    /\ Repaired
    /\ out.via = "best_effort"
    /\ out.code # <<>>

\* ---- C9
\* E is one line that parses as an expression or as an assignment of one (that
\* is, not as an annotation and not as a comment or a blank line)
OneLineExpr(E) ==
    /\ ~Contains(E, NL)
    /\ LET q == PRun(PStart, E)
       IN  q.k \in {"name0", "name", "prim", "primsp"} /\ q.ann = 0

\* E is one call-like expression: an expression that opens with the dataset
\* handle, a parenthesis or a called name
CallLike(E) ==
    /\ E # <<>>
    /\ OneLineExpr(E)
    /\ \/ E[1] = DF
       \/ E[1] = CALL
       \/ (WordRun(E) > 0 /\ WordRun(E) < Len(E) /\ E[WordRun(E) + 1] = CALL)

\* the names E refers to include the result binding itself
RECURSIVE RefersToResult(_)
RefersToResult(E) ==
    IF E = <<>> THEN FALSE
    ELSE IF IsName(E[1]) \/ E[1] \in {IMPORT, DOTSYS}
         THEN LET n == Find(E, {t \in Tok : ~(IsName(t) \/ t = IMPORT)}, 2)
                  run == IF n = 0 THEN E ELSE Take(E, n - 1)
              IN  run = <<RESULT>> \/ (n # 0 /\ RefersToResult(Drop(E, n - 1)))
    ELSE RefersToResult(Tail(E))

\* C9 as stated: every single bare call-like expression E with no = that does
\* not refer to the result binding is returned as exactly  result = E.
C9_WrappingLaw_AsStated ==
    (Repaired /\ CallLike(raw_text) /\ ~HasEq(raw_text) /\ ~RefersToResult(raw_text))
        => (~out.raised /\ out.code = <<RESULT, SP, EQ, SP>> \o raw_text)

\* C9 amended: every single-line call-like expression E that parses, holds no
\* =, does not contain the text result, and holds neither a dangerous-pattern
\* match nor a JSON "code" string (so that no other stage rewrites it) is
\* returned as  result =  followed by E without its surrounding whitespace,
\* and that snippet is validated.
C9_WrappingLaw ==
    (/\ Repaired
     /\ CallLike(raw_text)
     /\ ~HasEq(raw_text)
     /\ ~HasResult(raw_text)
     /\ ~HasDanger(raw_text)
     /\ ~Contains(raw_text, JOPEN))
        => /\ ~out.raised
           /\ out.code = <<RESULT, SP, EQ, SP>> \o Strip(raw_text)
           /\ out.via = "parsed"

\* C9 witness: a call on the dataset handle has been wrapped
C9_Witness ==
    /\ Repaired
    /\ raw_text = <<DF, CALL>>
    /\ out.code = <<RESULT, SP, EQ, SP, DF, CALL>>

\* ---- C10
\* C10 as stated: a snippet that already parses is returned unchanged but for
\* whitespace normalization.
C10_Idempotence_AsStated ==
    (Repaired /\ Parses(raw_text)) => (~out.raised /\ Strip(out.code) = Strip(raw_text))

\* C10 amended: a snippet that already parses, that the Output-Contract
\* Enforcer does not take for a single expression to wrap (or that already
\* contains the text result), and that holds no leading label, no JSON "code"
\* string and no dangerous-pattern match, is returned unchanged but for the
\* surrounding whitespace, which is stripped.
C10_Idempotence ==
    (/\ Repaired
     /\ Parses(raw_text)
     /\ (~_looks_like_single_expr(raw_text) \/ HasResult(raw_text))
     /\ ~HasDanger(raw_text)
     /\ ~Contains(raw_text, JOPEN)
     /\ (Strip(raw_text) = <<>> \/ Strip(raw_text)[1] # LABEL))
        => /\ ~out.raised
           /\ out.code = Strip(raw_text)
           /\ out.via \in {"parsed", "empty"}

\* C10 witness: a valid two-line snippet came back as it was
C10_Witness ==
    /\ Repaired
    /\ raw_text = <<X, EQ, CALL, NL>>
    /\ out.code = <<X, EQ, CALL>>

\* ---- C11
\* the snippet is over: _sanitize_dangerous returned
Sanitized == pc = "sanitized"

\* o is s with markers put in and nothing else changed
RECURSIVE Inserted(_, _)
Inserted(s, o) ==
    IF o = <<>> THEN s = <<>>
    ELSE \/ (s # <<>> /\ s[1] = o[1] /\ Inserted(Tail(s), Tail(o)))
         \/ (o[1] = MARK /\ Inserted(s, Tail(o)))

\* the positions of s where a match of a dangerous pattern starts
MatchStarts(s) ==
    {i \in 1..Len(s) :
        \E n \in 1..Len(DANGEROUS_PATTERNS) : DangerEnd(DANGEROUS_PATTERNS[n], s, i) # 0}

\* C11: the neutralized snippet has as many lines as the snippet; it is the
\* snippet with one marker put in per match and nothing taken out; and every
\* match of a dangerous pattern has a marker right in front of it.
C11_NeutralizationLaw ==
    Sanitized =>
        LET starts == MatchStarts(raw_text) IN
        /\ Len(SplitLines(out.code)) = Len(SplitLines(raw_text))
        /\ Inserted(raw_text, out.code)
        /\ Len(out.code) = Len(raw_text) + Cardinality(starts)
        /\ \A i \in starts :
               LET at == i + Cardinality({m \in starts : m <= i})
               IN  out.code[at] = raw_text[i] /\ out.code[at - 1] = MARK

\* C11 witness: import os.system, whose two matches overlap, got both markers
C11_Witness ==
    /\ Sanitized
    /\ raw_text = <<IMPORT, SP, OS, DOTSYS>>
    /\ out.code = <<MARK, IMPORT, SP, MARK, OS, DOTSYS>>

\* ---- C12
\* the snippet as it stands after neutralization (steps 1 to 6)
Neutralized(text) == _sanitize_dangerous(Enforce(JsonCode(Normalize(text)).text))

\* the neutralized snippet does not parse, and neither does what either
\* fallback makes of it (or the second fallback does not apply)
Exhausted(text) ==
    LET snippet == Neutralized(text) IN
    /\ text # <<>>
    /\ ~JsonCode(Normalize(text)).raised
    /\ ~Parses(snippet)
    /\ ~Parses(FallbackA(snippet))
    /\ ~(FallbackB(snippet).applies /\ Parses(FallbackB(snippet).attempt))

\* C12: when the neutralized snippet does not parse and no fallback yields a
\* snippet that does, the function returns the snippet as it stood after
\* neutralization, with none of the edits the fallbacks tried.
C12_FallbackExhaustion ==
    (Repaired /\ Exhausted(raw_text)) =>
        /\ ~out.raised
        /\ out.code = Neutralized(raw_text)
        /\ out.via = "best_effort"

\* C12 witness: both fallbacks edited the snippet (the first dropped the
\* backticks, the second rewrote the last line), neither edit parsed, and
\* the snippet came back with its backticks and its last line as they were
C12_Witness ==
    /\ Repaired
    /\ raw_text = <<EQ, NL, FENCE>>
    /\ FallbackA(Neutralized(raw_text)) # Neutralized(raw_text)
    /\ FallbackB(Neutralized(raw_text)).applies
    /\ out.code = <<EQ, NL, FENCE>>

\* ---- C16
\* part is one of the parts of the message
InMessage(part, message) == \E i \in 1..Len(message) : message[i] = part

\* both clients have been called and both have failed
BothFailed ==
    /\ Len(calls) = 2
    /\ calls[1].error # ""
    /\ calls[2].error # ""

\* C16: when both clients fail the request ends in a status "error" result
\* whose message holds both error messages, and neither the repair pipeline
\* nor exec has run; the modern client is called first, the legacy client
\* only after the modern one has failed, each at most once; without an API
\* key the error is returned and no client is called.
C16_UpstreamFailure ==
    /\ (Done /\ BothFailed) =>
           /\ response.status = "error"
           /\ InMessage(calls[1].error, response.error)
           /\ InMessage(calls[2].error, response.error)
           /\ fixes = <<>>
           /\ executed = <<>>
    /\ Len(calls) <= 2
    /\ Len(calls) >= 1 => calls[1].client = "new"
    /\ Len(calls) = 2 => (calls[2].client = "old" /\ calls[1].error # "")
    /\ ~OPENAI_KEY => (calls = <<>> /\ (pc # "start" => response = KeyMissing))

\* C16 witness: both clients were called, both failed, and the request is over
C16_Witness ==
    /\ Done
    /\ BothFailed
    /\ response = LLMFailed(NewErr, OldErr)

Unwrapped(text) == JsonCode(Normalize(text)).text

\* C19: the Output-Contract Enforcer leaves the snippet untouched whenever it
\* has more than one non-blank line, or holds the text result, or holds an =
\* (a one-line call-like snippet with an = is not rewritten to result = ...).
C19_EnforcerFrame ==
    (Repaired /\ ~out.raised) =>
        LET snippet == Unwrapped(raw_text) IN
        (\/ Len(NonBlank(SplitLines(Strip(snippet)))) > 1
         \/ HasResult(snippet)
         \/ HasEq(snippet)) => Enforce(snippet) = snippet

\* the one line l opens with df. , with a bracket or with a called name
OpensLikeCall(l) ==
    /\ l # <<>>
    /\ \/ l[1] = DF
       \/ l[1] = CALL
       \/ (WordRun(l) > 0 /\ WordRun(l) < Len(l) /\ l[WordRun(l) + 1] = CALL)

\* The part of C19 that the code keeps: a snippet of more than one non-blank
\* line, or one that holds the text result, or one with an = that neither is
\* call-like nor starts with df. or a bracket, is left untouched.
C19_FrameKept ==
    (Repaired /\ ~out.raised) =>
        LET snippet == Unwrapped(raw_text) IN
        (\/ Len(NonBlank(SplitLines(Strip(snippet)))) > 1
         \/ HasResult(snippet)
         \/ (HasEq(snippet) /\ ~OpensLikeCall(Strip(snippet)))) => Enforce(snippet) = snippet

\* ---- C13
Reported == pc = "reported"

\* the distinct dotted quads among the words of the summary and of the
\* recommendation texts
Claimed ==
    {w \in {"1.2.3.4", "5.6.7.8", "9.9.9.9"} :
        \/ \E i \in 1..Len(narrative.summary) : narrative.summary[i] = w
        \/ \E i \in 1..Len(narrative.recommendations) :
              \E j \in 1..Len(narrative.recommendations[i].text) :
                  narrative.recommendations[i].text[j] = w}

\* the claimed addresses that some evidence row has as its src or its dst
Matched ==
    {ip \in Claimed : \E i \in 1..Len(evidence.rows) :
                          evidence.rows[i]["src"] = {ip} \/ evidence.rows[i]["dst"] = {ip}}

\* what C13 says of the two counts
C13_Counts ==
    /\ report.ip_check.ips_claimed = Claimed
    /\ report.ip_check.ips_verified = Cardinality(Matched)
    /\ report.ip_check.ips_verified >= 0
    /\ report.ip_check.ips_verified <= Cardinality(Claimed)

\* C13 as stated: ips_claimed is the set of distinct dotted quads of the
\* summary and the recommendation texts, ips_verified the number of them that
\* are the src or dst of an evidence row, and trust is exactly
\* ips_verified / |ips_claimed|, 1.0 when no address is claimed.
C13_AddressCheck_Stated ==
    Reported =>
        /\ C13_Counts
        /\ IF Claimed = {} THEN report.ip_check.trust = 100
           ELSE report.ip_check.trust * Cardinality(Claimed)
                    = 100 * report.ip_check.ips_verified

\* C13, amended: as stated, but trust is ips_verified / |ips_claimed| rounded
\* to two decimals (within half a hundredth of the quotient).
C13_AddressCheck ==
    Reported =>
        /\ C13_Counts
        /\ IF Claimed = {} THEN report.ip_check.trust = 100
           ELSE LET d == report.ip_check.trust * Cardinality(Claimed)
                             - 100 * report.ip_check.ips_verified
                IN  2 * d <= Cardinality(Claimed) /\ -2 * d <= Cardinality(Claimed)

\* C13 witness: three addresses claimed, one of them in a recommendation, two
\* of them verified, the trust 0.67
C13_Witness ==
    /\ Reported
    /\ Cardinality(report.ip_check.ips_claimed) = 3
    /\ report.ip_check.ips_verified = 2
    /\ report.ip_check.trust = 67

\* ---- C14
\* some evidence row has the field col
HasField(col) == \E i \in 1..Len(evidence.rows) : evidence.rows[i][col] # {}

\* the sum of the field col over the evidence rows that have it
RECURSIVE FieldSum(_, _)
FieldSum(col, n) ==
    IF n = 0 THEN 0
    ELSE FieldSum(col, n - 1)
         + (IF evidence.rows[n][col] = {} THEN 0
            ELSE CHOOSE b \in evidence.rows[n][col] : TRUE)

\* every value of the field col is a count, so that the column has a sum
IsCount(col) == \A i \in 1..Len(evidence.rows) : NotANumber \notin evidence.rows[i][col]

\* C14: aggregates.n_rows is the number of evidence rows, and
\* aggregates.total_bytes is the sum over all rows of the first byte-count
\* field the evidence has, in the order Bytes_int, bytes; a later candidate is
\* ignored once one is found.  (The sum is that of a column of counts.)
C14_AggregateExactness ==
    Reported =>
        /\ report.aggregates.n_rows = Len(evidence.rows)
        /\ (HasField("Bytes_int") /\ IsCount("Bytes_int")) =>
               report.aggregates.total_bytes = <<FieldSum("Bytes_int", Len(evidence.rows))>>
        /\ (~HasField("Bytes_int") /\ HasField("bytes")) =>
               report.aggregates.total_bytes = <<FieldSum("bytes", Len(evidence.rows))>>

\* C14 witness: two rows with Bytes_int 100 and 200, the second with a bytes
\* field as well, which is ignored: n_rows 2, total_bytes 300
C14_Witness ==
    /\ Reported
    /\ report.aggregates.n_rows = 2
    /\ report.aggregates.total_bytes = <<300>>
    /\ HasField("bytes")

\* ---- C15
\* C15: the trust score is the address trust when no claim is parsed;
\* otherwise it is max(0, address trust - 0.5 * unsupported / claims) rounded
\* to two decimals (within half a hundredth of it).
C15_TrustScoreFormula ==
    Reported =>
        LET c == Len(report.claims_parsed)
            u == Len(report.unsupported_claims)
            x == 2 * c * report.ip_check.trust - 100 * u
            d == 2 * c * report.trust_score - (IF x > 0 THEN x ELSE 0)
        IN  IF c = 0 THEN report.trust_score = report.ip_check.trust
            ELSE d <= c /\ -d <= c

\* C15 witness: two claims, one of them unsupported, under a full address
\* trust: the score 0.75
C15_Witness ==
    /\ Reported
    /\ Len(report.claims_parsed) = 2
    /\ Len(report.unsupported_claims) = 1
    /\ report.ip_check.trust = 100
    /\ report.trust_score = 75

\* ---- C17
\* C17: compute_detailed_faithfulness returns a report, without raising, for
\* every narrative (a summary and an optional list of recommendation strings,
\* with or without addresses) and for both forms of evidence.
C17_AlwaysReports == pc # "raised"

\* The calls that do return: the recommendations are objects with a text, and
\* the evidence is a list of rows, or a table without columns, or the
\* narrative claims no address.
C17_ReportsWhen ==
    (/\ pc \in {"reported", "raised"}
     /\ \A i \in 1..Len(narrative.recommendations) : ~narrative.recommendations[i].is_str
     /\ (evidence.form = "list" \/ evidence.rows = <<>> \/ Claimed = {}))
        => Reported

\* ---- C20
\* the word w is in the narrative
Mentioned(w) ==
    \/ \E i \in 1..Len(narrative.summary) : narrative.summary[i] = w
    \/ \E i \in 1..Len(narrative.recommendations) :
          \E j \in 1..Len(narrative.recommendations[i].text) :
              narrative.recommendations[i].text[j] = w

\* the suspicious-row percentage is known and within the tolerance of the
\* percentage v (in tenths): |100 s / n - v| <= max(1, 10 s / n)
PercentMatches(v) ==
    /\ report.aggregates.n_rows > 0
    /\ report.aggregates.suspicious_rows # <<>>
    /\ LET n == report.aggregates.n_rows
           k == report.aggregates.suspicious_rows[1]
           d == 1000 * k - v * n
       IN  /\ d <= (IF 100 * k > 10 * n THEN 100 * k ELSE 10 * n)
           /\ -d <= (IF 100 * k > 10 * n THEN 100 * k ELSE 10 * n)

\* the parsed claim at position i is among the supported claims
IsSupported(i) ==
    \E j \in 1..Len(report.supported_claims) : report.supported_claims[j].pos = i

\* C20: a percentage claim is supported if the narrative mentions suspicious
\* and the suspicious-row percentage is within tolerance of the claimed
\* value, or if the narrative mentions bytes; when it mentions both and the
\* percentage does not match, the claim is supported through bytes.
C20_PercentSupport ==
    Reported =>
        \A i \in 1..Len(report.claims_parsed) :
            (/\ report.claims_parsed[i].type = "percent"
             /\ \/ Mentioned("suspicious") /\ PercentMatches(report.claims_parsed[i].value)
                \/ Mentioned("bytes"))
                => IsSupported(i)

\* What the code does for a percentage claim: with suspicious mentioned, the
\* suspicious count known and at least one row, the match of the percentage
\* decides alone; otherwise bytes mentioned together with a total_bytes
\* aggregate supports the claim.
C20_PercentSupportCoded ==
    Reported =>
        \A i \in 1..Len(report.claims_parsed) :
            report.claims_parsed[i].type = "percent" =>
                (IsSupported(i) <=>
                    IF /\ Mentioned("suspicious")
                       /\ report.aggregates.suspicious_rows # <<>>
                       /\ report.aggregates.n_rows > 0
                    THEN PercentMatches(report.claims_parsed[i].value)
                    ELSE Mentioned("bytes") /\ report.aggregates.total_bytes # <<>>)

\* ---- C24
\* C24: within one request the snippet is executed at most once, and after an
\* execution exception the request ends with the ExecutionError result: no
\* step repairs or executes the snippet after it.
C24_NoRetry ==
    /\ [](Len(executed) <= 1)
    /\ []((executed # <<>> /\ ex.raised) => (pc = "done" /\ response = ExecutionError))
    /\ [][(executed # <<>> /\ ex.raised) => (executed' = executed /\ fixes' = fixes)]_vars

\* C24 witness: the one execution raised and the request ended with the
\* ExecutionError result
C24_Witness ==
    /\ pc = "done"
    /\ Len(executed) = 1
    /\ ex.raised
    /\ response = ExecutionError

\* ---- C28
\* C28: every snippet that exec runs has gone through fix_invalid_code
\* before, also when the model's code holds the text result and parses.
C28_RepairedBeforeExec == executed # <<>> => fixes # <<>>

\* The snippets that do go through fix_invalid_code before exec: those
\* without the text result, and those that do not parse.
C28_RepairedWhen ==
    (executed # <<>> /\ fixes = <<>>) =>
        (HasResult(executed[1]) /\ is_valid_python(executed[1]))

\* ---- C27
\* every match of a dangerous pattern in s has the marker right in front of it
AllMarked(s) == \A i \in MatchStarts(s) : i > 1 /\ s[i - 1] = MARK

\* C27: in every non-empty snippet fix_invalid_code returns, validated, from
\* either fallback or as best effort, every match of a dangerous pattern has
\* the marker right in front of it.
C27_ReturnedMarked ==
    (Repaired /\ ~out.raised /\ out.code # <<>>) => AllMarked(out.code)

\* The returns that keep every match marked: the validated snippet, the best
\* effort and the second fallback, which return the neutralized snippet or
\* its lines with the last one wrapped.
C27_MarkedWhen ==
    (Repaired /\ ~out.raised /\ out.via # "fallback_a") => AllMarked(out.code)

\* ---- C30
\* C30: fix_invalid_code is a fixed point on its own output: applied to the
\* snippet it returned, it returns that snippet again, with no further marker
\* or wrapper.
C30_FixedPoint ==
    (Repaired /\ ~out.raised) =>
        (~fix_invalid_code(out.code).raised /\ fix_invalid_code(out.code).code = out.code)

\* ---- C29
\* the places in claims_parsed of the claims of a list, in the order of the
\* list
Places(claims) == [i \in 1..Len(claims) |-> claims[i].pos]

Increasing(q) == \A i, j \in 1..Len(q) : i < j => q[i] < q[j]

\* C29: in every report, supported_claims and unsupported_claims partition
\* claims_parsed: every claim of the two lists is a parsed claim, each parsed
\* claim is in exactly one of the two lists, each list is in parse order, and
\* the two lengths add up to the number of parsed claims.
C29_Partition ==
    Reported =>
        LET parsed == report.claims_parsed
            s == report.supported_claims
            u == report.unsupported_claims
        IN  /\ Len(s) + Len(u) = Len(parsed)
            /\ \A i \in 1..Len(s) : s[i].pos \in 1..Len(parsed) /\ s[i] = parsed[s[i].pos]
            /\ \A i \in 1..Len(u) : u[i].pos \in 1..Len(parsed) /\ u[i] = parsed[u[i].pos]
            /\ \A k \in 1..Len(parsed) :
                   (\E i \in 1..Len(s) : s[i].pos = k) # (\E i \in 1..Len(u) : u[i].pos = k)
            /\ Increasing(Places(s))
            /\ Increasing(Places(u))

\* C29 witness: a report with a supported claim and two unsupported ones
C29_Witness ==
    /\ Reported
    /\ Len(report.supported_claims) >= 1
    /\ Len(report.unsupported_claims) >= 2

\* ---- C21
\* the distance between two counts
Dist(a, b) == IF a >= b THEN a - b ELSE b - a

\* C21: a fraction claim is supported only if the narrative mentions rows and
\* its denominator is within 10% of the number of evidence rows, whatever that
\* number is.
C21_FractionSupport ==
    Reported =>
        \A i \in 1..Len(report.supported_claims) :
            LET c == report.supported_claims[i]
            IN  c.type = "fraction" =>
                    /\ Mentioned("rows")
                    /\ 10 * Dist(c.den, Len(evidence.rows)) <= Len(evidence.rows)

\* what the code does: a fraction claim is supported exactly when the
\* narrative mentions rows, there is an evidence row, and the denominator is
\* within one row, or within 10%, of the number of rows, whichever is more
C21_FractionSupportCoded ==
    Reported =>
        \A i \in 1..Len(report.claims_parsed) :
            LET c == report.claims_parsed[i]
                n == Len(evidence.rows)
            IN  c.type = "fraction" =>
                    (IsSupported(i) <=>
                        /\ Mentioned("rows")
                        /\ n > 0
                        /\ (Dist(c.den, n) <= 1 \/ 10 * Dist(c.den, n) <= n))

\* ---- C22
\* the evidence rows whose attack type is not  Normal  (a row without one
\* counts), when some row has an attack type
SuspiciousCount ==
    Cardinality({i \in 1..Len(evidence.rows) : evidence.rows[i]["attackType"] # {"Normal"}})

\* the evidence rows of attack type  dos , the one category whose name is a
\* word of the narratives
DosCount ==
    Cardinality({i \in 1..Len(evidence.rows) : evidence.rows[i]["attackType"] = {"dos"}})

\* a value in tenths is within 10% of the count n
WithinTolerance(value, n) == 10 * Dist(value, 10 * n) <= 10 * n

\* a value in tenths is within one, or within 10%, of the count n
WithinOne(value, n) == Dist(value, 10 * n) <= 10 \/ WithinTolerance(value, n)

\* C22: a plain-number claim is supported exactly when it is within 10% of
\* the row count and the narrative mentions rows, or within 10% of the
\* suspicious-row count and the narrative mentions suspicious, or within 10%
\* of the count of an attack category whose name is in the narrative.
C22_NumberSupport ==
    Reported =>
        \A i \in 1..Len(report.claims_parsed) :
            LET c == report.claims_parsed[i]
            IN  c.type = "number" =>
                    (IsSupported(i) <=>
                        \/ Mentioned("rows") /\ WithinTolerance(c.value, Len(evidence.rows))
                        \/ /\ Mentioned("suspicious")
                           /\ HasField("attackType")
                           /\ WithinTolerance(c.value, SuspiciousCount)
                        \/ /\ Mentioned("dos")
                           /\ DosCount > 0
                           /\ WithinTolerance(c.value, DosCount))

\* what the code does: the row count and the suspicious-row count are matched
\* within 10%, where 10% of a count of 0 is taken as 0.1, and the count of an
\* attack category within one or within 10%, whichever is more
C22_NumberSupportCoded ==
    Reported =>
        \A i \in 1..Len(report.claims_parsed) :
            LET c == report.claims_parsed[i]
            IN  c.type = "number" =>
                    (IsSupported(i) <=>
                        \/ /\ Mentioned("rows")
                           /\ \/ WithinTolerance(c.value, Len(evidence.rows))
                              \/ Len(evidence.rows) = 0 /\ c.value <= 1
                        \/ /\ Mentioned("suspicious")
                           /\ HasField("attackType")
                           /\ \/ WithinTolerance(c.value, SuspiciousCount)
                              \/ SuspiciousCount = 0 /\ c.value <= 1
                        \/ /\ Mentioned("dos")
                           /\ DosCount > 0
                           /\ WithinOne(c.value, DosCount))

\* ---- C23
\* the number of places of q that hold e
Count(q, e) == Cardinality({i \in 1..Len(q) : q[i] = e})

\* the texts of the number claims of the report, in order
NumberTexts ==
    LET numbers == SelectSeq(report.claims_parsed, LAMBDA c : c.type = "number")
    IN  [i \in 1..Len(numbers) |-> numbers[i].text]

\* the words of the narrative: those of the summary, then those of the
\* recommendation texts
NarrativeWords ==
    narrative.summary
        \o (IF narrative.recommendations = <<>> THEN <<>>
            ELSE narrative.recommendations[1].text)

\* C23: every standalone number of the narrative (the word 2) yields a number
\* claim, also when the narrative holds an address with the same digits and a
\* dot behind them, and no number claim is made of a part of an address.
C23_NumberExtraction ==
    Reported =>
        /\ Count(NumberTexts, "2") = Count(NarrativeWords, "2")
        /\ \A i \in 1..Len(NumberTexts) :
               NumberTexts[i] \notin {"1.2", "3.4", "5.6", "7.8", "9.9"}

\* ---- C26
\* C26: each aggregate is in the report exactly when some evidence row has its
\* field (the byte count when a row has one of the byte fields); neither a
\* missing field nor a failure of another aggregate removes it.
C26_GracefulDegradation ==
    Reported =>
        LET aggs == report.aggregates
        IN  /\ aggs.top_src # <<>> <=> HasField("src")
            /\ aggs.top_dst # <<>> <=> HasField("dst")
            /\ aggs.total_bytes # <<>> <=> (HasField("Bytes_int") \/ HasField("bytes"))
            /\ aggs.mean_duration # <<>> <=> HasField("Duration_sec")
            /\ aggs.flags_flags # <<>> <=> HasField("flags")
            /\ aggs.attack_counts # {} <=> HasField("attackType")
            /\ aggs.suspicious_rows # <<>> <=> HasField("attackType")

\* what the code does: the aggregates before the byte count, and the two made
\* from the attack type, are in the report exactly when their field is there;
\* the byte count and the ones after it are when, besides, the byte column
\* summed has no text in it
C26_DegradationCoded ==
    Reported =>
        LET aggs == report.aggregates
            summed == IF HasField("Bytes_int") THEN IsCount("Bytes_int") ELSE TRUE
        IN  /\ aggs.top_src # <<>> <=> HasField("src")
            /\ aggs.top_dst # <<>> <=> HasField("dst")
            /\ aggs.total_bytes # <<>> <=>
                   ((HasField("Bytes_int") \/ HasField("bytes")) /\ summed)
            /\ aggs.mean_duration # <<>> <=> (HasField("Duration_sec") /\ summed)
            /\ aggs.flags_flags # <<>> <=> (HasField("flags") /\ summed)
            /\ aggs.attack_counts # {} <=> HasField("attackType")
            /\ aggs.suspicious_rows # <<>> <=> HasField("attackType")

\* ---- C25
\* C25: in every interleaving of two requests on the same dataset, a request
\* that is over has returned what it returns when it runs alone, and the
\* caller's dataset is as it was.
C25_Isolation ==
    \A i \in DOMAIN requests :
        /\ heap[df] = Original
        /\ requests[i].pc = "done" => requests[i].response = Alone(requests[i].code)

\* what the code does keep apart: each request has a dataset object of its
\* own, which is not the caller's, the caller's dataset is as it was, and a
\* request whose snippet reads no attribute of the module pd returns what it
\* returns alone
C25_PrivateCopies ==
    /\ heap[df] = Original
    /\ \A i \in DOMAIN requests :
           /\ requests[i].sandbox # df
           /\ \A j \in DOMAIN requests :
                  (i # j /\ requests[i].sandbox # 0) =>
                      requests[i].sandbox # requests[j].sandbox
           /\ (requests[i].pc = "done" /\ ~Contains(requests[i].code, PD)) =>
                  requests[i].response = Alone(requests[i].code)

====
